---- MODULE Spec2Model ----
(***************************************************************************)
(* MQSMaster backfill: the rate limiter, the retrying request layer, the   *)
(* batch planner and the per-ticker fetch pipeline, as state machines.     *)
(*                                                                         *)
(*   src/src/orchestrator/marketData/fmpMarketData.py   FMPMarketData      *)
(*   src/src/orchestrator/backfill/backfill.py          backfill_data      *)
(*   src/src/orchestrator/backfill/concurrent_backfill.py                  *)
(*   src/src/orchestrator/backfill/update/crypto_tickers.py                *)
(*                                                                         *)
(* Time is the wall clock in whole seconds (time.time()).  A thread that   *)
(* calls time.sleep(d) at instant s resumes at some instant >= s + d.      *)
(***************************************************************************)
EXTENDS Integers, Sequences, FiniteSets, TLC

(***************************************************************************)
(* Bounds of the model.                                                    *)
(***************************************************************************)
\* Threads that call into one process's clients.
NThreads == 2
\* Calls of _check_rate_limit the threads make, all together, in the
\* limiter specifications.
MaxCalls == 4
\* The clock advances in steps of TickSeconds while it is below MaxTime.
TickSeconds == 30
MaxTime == 90
\* self.MAX_REQUESTS_PER_MIN is 3000 in the source (fmpMarketData.py:57).  The
\* limiter is parametric in it; the model runs it at this scaled value.
MAX_REQUESTS_PER_MIN == 2

\* Dates are days counted from 2024-01-01, a Monday; backfill_data is called
\* with start_date <= end_date both in 0..MaxDay.
MaxDay == 7
\* The batch planner's list comprehension is checked for every batch size in
\* 1..MaxBatchDays.
MaxBatchDays == 4
\* Exceptions raised inside the try block of backfill_data during one call.
MaxFaults == 2
\* The fetch calls of one backfill_data call are counted up to MaxFetches.
MaxFetches == 2
\* Ticker tasks of one concurrent_backfill run.
NTasks == 2
\* Connections the pool can lease at once.
PoolSize == 2
\* Timestamps of the bars a fetch returns are in 1..MaxStamp.
MaxStamp == 2
\* A universe fetch receives at most MaxSymbols items.
MaxSymbols == 2
\* A quote response is a list of at most MaxQuotes entries.
MaxQuotes == 2

(***************************************************************************)
(* Program constants.                                                      *)
(***************************************************************************)
BATCH_DAYS == 3
\* while attempt < 2 and not success
MaxTries == 2
LOCK_WINDOW_SECONDS == 60
MAX_RETRIES == 6
INTERNET_RETRY_INTERVAL_SECONDS == 10
INTERNET_MAX_WAIT_SECONDS == 120
\* time.sleep(10 * attempt) after an HTTP 429
RateLimitBackoff == 10
\* time.sleep(5 * attempt) after a timeout or another request exception
TimeoutBackoff == 5

\* The class docstring promises "without exceeding 2999 requests per minute":
\* one less than the configured MAX_REQUESTS_PER_MIN (3000).
DocumentedLimit == MAX_REQUESTS_PER_MIN - 1

Threads == 1..NThreads
\* FMPMarketData instances: at most one per thread is ever constructed.
Clients == 1..NThreads
NoThread == 0
NoClient == 0
Tasks == 1..NTasks
Leases == 1..PoolSize
\* conn = None
NoConn == 0

VARIABLES
  now,                \* time.time()
  request_timestamps, \* per client: self.request_timestamps
  lock,               \* per client: the holder of self._lock, or NoThread
  pc,                 \* per thread: position in the code
  ret,                \* per thread: where _check_rate_limit returns to
  client,             \* per thread: the FMPMarketData instance it calls
  current_time,       \* per thread: local current_time of _check_rate_limit
  wait_time,          \* per thread: local wait_time of _check_rate_limit
  wake_at,            \* per thread: the instant its time.sleep() may end
  calls,              \* calls of _check_rate_limit started, by all threads
  iterations,         \* per thread: passes of the while loop in this call
  admitted,           \* history: <<client, recorded time>> of every return
  attempt,            \* per thread: loop variable of _make_request
  result,             \* per thread: how _make_request ended
  response,           \* per thread: what the latest requests.get produced
  gets,               \* per thread: requests.get calls of this _make_request
  failures,           \* per thread: attempts of this call that did not succeed
  acquires,           \* per thread: returns of _check_rate_limit in this call
  plain,              \* per thread: history, every failed attempt of this call was a PlainFailure
  reconnected,        \* per thread: local reconnected of _make_request
  start_time,         \* per thread: local start_time of _wait_for_internet
  bf_pc,              \* backfill_data: position in the code
  api_key,            \* what APIAuth().get_fmp_api_key() returns
  tickers,            \* backfill_data: argument tickers
  start_date,         \* backfill_data: argument start_date, a date
  end_date,           \* backfill_data: argument end_date, a date
  output_filename,    \* backfill_data: argument output_filename
  all_dates,          \* backfill_data: local all_dates
  grouped_dates,      \* backfill_data: local grouped_dates
  ticker_idx,         \* backfill_data: index of the for loop over tickers
  group_idx,          \* backfill_data: index of the for loop over grouped_dates
  from_date_str,      \* backfill_data: local from_date_str
  to_date_str,        \* backfill_data: local to_date_str
  bf_attempt,         \* backfill_data: local attempt
  success,            \* backfill_data: local success
  all_dfs,            \* backfill_data: local all_dfs, as <<ticker, batch>> per frame
  fetches,            \* history: calls of get_intraday_data and get_historical_data, up to MaxFetches
  bf_result,          \* backfill_data: what the call returned or raised
  data_chunk,         \* backfill_data: local data_chunk
  try_calls,          \* history: the fetch calls of the current try, in order
  csv,                \* the file at output_path: <<ticker, batch>> per write
  batch_log,          \* history: <<ticker index, batch index, success>> per batch left
  faults,             \* history: exceptions raised inside the try block
  intraday_result,    \* history: what get_intraday_data did in the current try
  cb_pc,              \* concurrent_backfill: position in the code
  cb_tickers,         \* concurrent_backfill: argument tickers
  threads,            \* concurrent_backfill: argument threads
  dry_run,            \* concurrent_backfill: argument dry_run
  on_conflict,        \* concurrent_backfill: argument on_conflict
  fut_idx,            \* concurrent_backfill: index of the for loop over futures
  cb_result,          \* concurrent_backfill: what the call returned or raised
  wpc,                \* per task: position in backfill_single_ticker
  df,                 \* per task: local df, the timestamps of its rows, or NoFrame
  cells,              \* per task: the text of the numeric cells of each row of df
  conn,               \* per task: local conn, a lease of the pool, or NoConn
  insert_data,        \* per task: local insert_data, as <<ticker, timestamp>> rows
  future,             \* per task: how its future ended
  leased,             \* the pool: the leases that are out
  closes,             \* the pool: calls of close_all_connections
  store,              \* market_data: the committed rows, as <<ticker, timestamp>>
  pending,            \* per task: rows inserted in its open transaction
  executes,           \* history, per task: the row lists passed to execute_values
  commits,            \* history, per task: the calls of conn.commit()
  borrows,            \* history, per task: leases it was given
  releases,           \* history, per task: calls of release_connection
  worker_error,       \* history, per task: the exception its worker caught: "none", "conflict" (a duplicate key) or "other"
  finished_at_close,  \* history: the tasks that had ended when the pool was closed
  un_pc,              \* universe fetch: position in get_*_tickers and the function that writes the file
  universe,           \* universe fetch: "sp500", "commodity" or "crypto"
  payload,            \* universe fetch: the symbols of the items received
  to_write,           \* the list handed to json.dump
  target,             \* the side file at the target path: whether it exists and its content
  temp,               \* the temporary sibling file
  handle,             \* the file the open file object writes to: "none", "temp" or "target"
  buffer,             \* what the file object has buffered and not yet written
  dump_idx,           \* pieces of the encoding json.dump has written
  temp_path,          \* _write_json_atomic: local temp_path, "None" or "set"
  synced,             \* the files whose content is on stable storage
  previous,           \* history: the target file before the fetch
  un_result,          \* universe fetch: what get_*_tickers returned or raised
  gcp_pc,             \* get_current_price: position in the code
  gcp_data,           \* get_current_price: what _make_request returned or raised
  gcp_result          \* get_current_price: what the call returned or raised

limiterVars == <<request_timestamps, lock, admitted>>
threadVars == <<pc, ret, client, current_time, wait_time, wake_at, calls, iterations>>
requestVars == <<attempt, result, response, gets, failures, acquires, plain, reconnected, start_time>>
clientVars == <<now, limiterVars, threadVars, requestVars>>

backfillVars == <<bf_pc, api_key, tickers, start_date, end_date, output_filename,
                  all_dates, grouped_dates, ticker_idx, group_idx, from_date_str,
                  to_date_str, bf_attempt, success, all_dfs, fetches, bf_result,
                  data_chunk, try_calls, csv, batch_log, faults, intraday_result>>

\* What the main thread of concurrent_backfill reads and writes.
mainVars == <<cb_pc, cb_tickers, threads, dry_run, on_conflict, fut_idx, cb_result,
              closes, finished_at_close>>

orchVars == <<cb_pc, cb_tickers, threads, dry_run, on_conflict, fut_idx, cb_result,
              wpc, df, cells, conn, insert_data, future, leased, closes, store,
              pending, executes, commits, borrows, releases, worker_error,
              finished_at_close>>

universeVars == <<un_pc, universe, payload, to_write, target, temp, handle, buffer,
                  dump_idx, temp_path, synced, previous, un_result>>

quoteVars == <<gcp_pc, gcp_data, gcp_result>>

Max(a, b) == IF a >= b THEN a ELSE b

(***************************************************************************)
(* FMPMarketData._check_rate_limit                                         *)
(***************************************************************************)
\* Positions inside _check_rate_limit.
RLPcs == {"rl_enter", "rl_locked", "rl_unlocked", "rl_sleep"}

\* line 88: a timestamp t is kept when (current_time - t) < LOCK_WINDOW_SECONDS
FreshEarlyExpiry(cur, t) == (cur - t) < LOCK_WINDOW_SECONDS - TickSeconds
FreshInclusive(cur, t) == (cur - t) <= LOCK_WINDOW_SECONDS
Fresh(cur, t) == (cur - t) < LOCK_WINDOW_SECONDS

\* lines 85-89: the list comprehension that purges old timestamps
Purge(ts, cur) == SelectSeq(ts, LAMBDA t : Fresh(cur, t))

\* line 92: if len(self.request_timestamps) < self.MAX_REQUESTS_PER_MIN
UnderLimitOffByOne(ts) == Len(ts) <= MAX_REQUESTS_PER_MIN
UnderLimit(ts) == Len(ts) < MAX_REQUESTS_PER_MIN

\* lines 97-99: wait until the oldest timestamp expires
WaitTimeZero(ts, cur) == 0
WaitTime(ts, cur) == LOCK_WINDOW_SECONDS - (cur - ts[1])

\* line 81: leaving the with block releases self._lock, on return (line 94)
\* and before the sleep (lines 101-109)
LeaveWithKeepsLock(l, c) == l
LeaveWith(l, c) == [l EXCEPT ![c] = NoThread]

\* A thread enters _check_rate_limit; it returns to position r.
EnterRateLimit(t, r) ==
  /\ pc' = [pc EXCEPT ![t] = "rl_enter"]
  /\ ret' = [ret EXCEPT ![t] = r]
  /\ iterations' = [iterations EXCEPT ![t] = 0]

\* lines 79-82: a pass of the while loop starts, takes self._lock and reads
\* the clock.
RLLock(t) ==
  /\ pc[t] = "rl_enter"
  /\ lock[client[t]] = NoThread
  /\ lock' = [lock EXCEPT ![client[t]] = t]
  /\ current_time' = [current_time EXCEPT ![t] = now]
  /\ wait_time' = [wait_time EXCEPT ![t] = 0]
  /\ iterations' = [iterations EXCEPT ![t] = @ + 1]
  /\ pc' = [pc EXCEPT ![t] = "rl_locked"]
  /\ UNCHANGED <<quoteVars, universeVars, orchVars, backfillVars, requestVars, now, request_timestamps, admitted, ret, client, wake_at, calls>>

\* lines 85-94: purge, find the list under the limit, append and return
\* (leaving the with block releases the lock).
RLAdmit(t) ==
  /\ pc[t] = "rl_locked"
  /\ LET c == client[t]
         ts == Purge(request_timestamps[c], current_time[t])
     IN /\ UnderLimit(ts)
        /\ request_timestamps' =
             [request_timestamps EXCEPT ![c] = Append(ts, current_time[t])]
        /\ admitted' = Append(admitted, <<c, current_time[t]>>)
        /\ lock' = LeaveWith(lock, c)
  /\ pc' = [pc EXCEPT ![t] = ret[t]]
  /\ UNCHANGED <<quoteVars, universeVars, orchVars, backfillVars, requestVars, now, ret, client, current_time, wait_time, wake_at, calls, iterations>>

\* lines 85-99: purge, find the list full, compute wait_time and leave the
\* with block.
RLReject(t) ==
  /\ pc[t] = "rl_locked"
  /\ LET c == client[t]
         ts == Purge(request_timestamps[c], current_time[t])
     IN /\ ~UnderLimit(ts)
        /\ request_timestamps' = [request_timestamps EXCEPT ![c] = ts]
        /\ wait_time' = [wait_time EXCEPT ![t] = WaitTime(ts, current_time[t])]
        /\ lock' = LeaveWith(lock, c)
  /\ pc' = [pc EXCEPT ![t] = "rl_unlocked"]
  /\ UNCHANGED <<quoteVars, universeVars, orchVars, backfillVars, requestVars, now, admitted, ret, client, current_time, wake_at, calls, iterations>>

\* lines 101-109: outside the lock, time.sleep(wait_time) or time.sleep(0)
RLSleep(t) ==
  /\ pc[t] = "rl_unlocked"
  /\ wake_at' = [wake_at EXCEPT ![t] =
                   IF wait_time[t] > 0 THEN now + wait_time[t] ELSE now]
  /\ pc' = [pc EXCEPT ![t] = "rl_sleep"]
  /\ UNCHANGED <<quoteVars, universeVars, orchVars, backfillVars, requestVars, now, limiterVars, ret, client, current_time, wait_time, calls, iterations>>

\* time.sleep returns: the clock is at or past the instant the sleep ends,
\* and the while loop starts over.
RLWake(t) ==
  /\ pc[t] = "rl_sleep"
  /\ now' = Max(now, wake_at[t])
  /\ pc' = [pc EXCEPT ![t] = "rl_enter"]
  /\ UNCHANGED <<quoteVars, universeVars, orchVars, backfillVars, requestVars, limiterVars, ret, client, current_time, wait_time, wake_at, calls, iterations>>

\* The clock advances.
Tick ==
  /\ now + TickSeconds <= MaxTime
  /\ now' = now + TickSeconds
  /\ UNCHANGED <<quoteVars, universeVars, orchVars, backfillVars, limiterVars, threadVars, requestVars>>

\* A caller of one client invokes _check_rate_limit.
Call(t) ==
  /\ pc[t] = "idle"
  /\ client[t] # NoClient
  /\ calls < MaxCalls
  /\ calls' = calls + 1
  /\ EnterRateLimit(t, "idle")
  /\ UNCHANGED <<quoteVars, universeVars, orchVars, backfillVars, requestVars, now, limiterVars, client, current_time, wait_time, wake_at>>

\* backfill.py line 134, reached from concurrent_backfill.py lines 78 and
\* 186-198: every ticker task calls backfill_data, and every backfill_data
\* call constructs an FMPMarketData of its own (lines 46-72: an empty
\* request_timestamps and a new Lock per instance).
NewClient(t) ==
  /\ pc[t] = "idle"
  /\ client[t] = NoClient
  /\ client' = [client EXCEPT ![t] = t]
  /\ request_timestamps' = [request_timestamps EXCEPT ![t] = <<>>]
  /\ lock' = [lock EXCEPT ![t] = NoThread]
  /\ UNCHANGED <<quoteVars, universeVars, orchVars, backfillVars, now, admitted, pc, ret, current_time, wait_time, wake_at, calls,
                 iterations, requestVars>>

(***************************************************************************)
(* FMPMarketData._make_request and _wait_for_internet                      *)
(***************************************************************************)
\* What one requests.get(url, ...) of _make_request can produce:
\*   "200"      status 200 and a body that response.json() parses
\*   "200bad"   status 200 and a body that response.json() cannot parse
\*   "429"      status 429
\*   "other"    any other status
\*   "timeout"  requests.exceptions.Timeout
\*   "connerr"  requests.exceptions.ConnectionError
\*   "reqexc"   any other requests.exceptions.RequestException

\* The failure kinds of one attempt other than an unparsable body and a
\* request exception that is neither a Timeout nor a ConnectionError.
PlainFailures == {"429", "other", "timeout", "connerr"}

\* What response.json() raises on an unparsable body depends on the installed
\* requests: its own JSONDecodeError, a RequestException (2.27 and later), or
\* a plain ValueError (earlier), which no except clause of _make_request
\* names.
JsonErrors == {"RequestException", "ValueError"}

\* What the probe requests.get("https://www.google.com", timeout=5) of
\* _wait_for_internet can produce: a response, a ConnectionError, or a
\* Timeout that is not a ConnectionError (a read timeout).

\* lines 175, 184, 204: the backoff after failed attempt number n
BackoffFlat(kind, n) ==
  IF kind = "429" THEN RateLimitBackoff ELSE TimeoutBackoff
Backoff(kind, n) ==
  IF kind = "429" THEN RateLimitBackoff * n ELSE TimeoutBackoff * n

\* lines 132-133: elapsed = time.time() - start_time;
\* if elapsed >= max_wait_seconds
WaitIsOverStrict(start) == now - start > INTERNET_MAX_WAIT_SECONDS
WaitIsOver(start) == now - start >= INTERNET_MAX_WAIT_SECONDS

\* line 150: for attempt in range(1, self.MAX_RETRIES + 1)
HasNextAttemptOneMore(n) == n <= MAX_RETRIES
HasNextAttempt(n) == n < MAX_RETRIES

\* A caller invokes _make_request, once per thread.
MakeRequest(t) ==
  /\ pc[t] = "idle"
  /\ client[t] # NoClient
  /\ result[t] = "unset"
  /\ result' = [result EXCEPT ![t] = "pending"]
  /\ attempt' = [attempt EXCEPT ![t] = 0]
  /\ gets' = [gets EXCEPT ![t] = 0]
  /\ failures' = [failures EXCEPT ![t] = 0]
  /\ acquires' = [acquires EXCEPT ![t] = 0]
  /\ plain' = [plain EXCEPT ![t] = TRUE]
  /\ reconnected' = [reconnected EXCEPT ![t] = "unset"]
  /\ response' = [response EXCEPT ![t] = "none"]
  /\ pc' = [pc EXCEPT ![t] = "mr_loop"]
  /\ UNCHANGED <<quoteVars, universeVars, orchVars, backfillVars, now, limiterVars, ret, client, current_time, wait_time, wake_at,
                 calls, iterations, acquires, start_time>>

\* lines 150-153: the first statement of every pass of the loop is
\* self._check_rate_limit()
AttemptStartOnceLimited(n) == IF n = 1 THEN "mr_acquire" ELSE "mr_get"
AttemptStart(n) == "mr_acquire"

\* line 150: the for loop starts its next pass
MRNextAttempt(t) ==
  /\ pc[t] = "mr_loop"
  /\ HasNextAttempt(attempt[t])
  /\ attempt' = [attempt EXCEPT ![t] = @ + 1]
  /\ pc' = [pc EXCEPT ![t] = AttemptStart(attempt[t] + 1)]
  /\ UNCHANGED <<quoteVars, universeVars, orchVars, backfillVars, plain, reconnected, now, limiterVars, ret, client, current_time, wait_time, wake_at,
                 calls, iterations, result, response, gets, failures, acquires,
                 start_time>>

\* line 153: self._check_rate_limit() is called and returns.  The call raises
\* nothing and touches only the limiter's own list; how long it blocks and
\* what it records is the subject of SpecLimiter, and is left out here.
MRAcquire(t) ==
  /\ pc[t] = "mr_acquire"
  /\ acquires' = [acquires EXCEPT ![t] = @ + 1]
  /\ pc' = [pc EXCEPT ![t] = "mr_get"]
  /\ UNCHANGED <<quoteVars, universeVars, orchVars, backfillVars, plain, reconnected, now, limiterVars, ret, client, current_time, wait_time, wake_at,
                 calls, iterations, attempt, result, response, gets, failures,
                 start_time>>

\* lines 206-211: the loop is exhausted; log and return None
MRExhausted(t) ==
  /\ pc[t] = "mr_loop"
  /\ ~HasNextAttempt(attempt[t])
  /\ result' = [result EXCEPT ![t] = "None"]
  /\ pc' = [pc EXCEPT ![t] = "mr_done"]
  /\ UNCHANGED <<quoteVars, universeVars, orchVars, backfillVars, plain, reconnected, now, limiterVars, ret, client, current_time, wait_time, wake_at,
                 calls, iterations, attempt, acquires, response, gets, failures, start_time>>

\* lines 155-160: requests.get answers 200 and the body parses
GetOk(t) ==
  /\ pc[t] = "mr_get"
  /\ gets' = [gets EXCEPT ![t] = @ + 1]
  /\ response' = [response EXCEPT ![t] = "200"]
  /\ result' = [result EXCEPT ![t] = "body"]
  /\ pc' = [pc EXCEPT ![t] = "mr_done"]
  /\ UNCHANGED <<quoteVars, universeVars, orchVars, backfillVars, plain, reconnected>>
  /\ UNCHANGED <<quoteVars, universeVars, orchVars, backfillVars, now, limiterVars, ret, client, current_time, wait_time, wake_at,
                 calls, iterations, attempt, acquires, failures, start_time>>

\* lines 155-160, 196-204: requests.get answers 200 and response.json() raises
GetBadBody(t) ==
  /\ pc[t] = "mr_get"
  /\ gets' = [gets EXCEPT ![t] = @ + 1]
  /\ response' = [response EXCEPT ![t] = "200bad"]
  /\ failures' = [failures EXCEPT ![t] = @ + 1]
  /\ \E e \in JsonErrors :
       IF e = "RequestException"
         THEN /\ wake_at' = [wake_at EXCEPT ![t] = now + Backoff("reqexc", attempt[t])]
              /\ pc' = [pc EXCEPT ![t] = "mr_sleep"]
              /\ UNCHANGED result
         ELSE /\ result' = [result EXCEPT ![t] = "raised"]
              /\ pc' = [pc EXCEPT ![t] = "mr_done"]
              /\ UNCHANGED wake_at
  /\ plain' = [plain EXCEPT ![t] = FALSE]
  /\ UNCHANGED reconnected
  /\ UNCHANGED <<quoteVars, universeVars, orchVars, backfillVars, now, limiterVars, ret, client, current_time, wait_time,
                 calls, iterations, attempt, acquires, start_time>>

\* lines 171-175, 177-184, 196-204: time.sleep is a statement of the handler
\* with no condition on the attempt number
SleepsAfterUnlessLast(n) == n < MAX_RETRIES
SleepsAfter(n) == TRUE

\* lines 162-175, 177-184, 196-204: a 429, a Timeout or another
\* RequestException; the handler sleeps Backoff and the loop goes on
GetBackoff(t) ==
  /\ pc[t] = "mr_get"
  /\ \E kind \in {"429", "timeout", "reqexc"} :
       /\ response' = [response EXCEPT ![t] = kind]
       /\ plain' = [plain EXCEPT ![t] = @ /\ kind \in PlainFailures]
       /\ wake_at' = [wake_at EXCEPT ![t] = now + Backoff(kind, attempt[t])]
  /\ gets' = [gets EXCEPT ![t] = @ + 1]
  /\ failures' = [failures EXCEPT ![t] = @ + 1]
  /\ pc' = [pc EXCEPT ![t] = IF SleepsAfter(attempt[t]) THEN "mr_sleep" ELSE "mr_loop"]
  /\ UNCHANGED <<quoteVars, universeVars, orchVars, backfillVars, now, limiterVars, ret, client, current_time, wait_time,
                 calls, iterations, attempt, acquires, result, reconnected, start_time>>

\* lines 162-171: any other status is logged and the loop goes on at once
GetOtherStatus(t) ==
  /\ pc[t] = "mr_get"
  /\ response' = [response EXCEPT ![t] = "other"]
  /\ gets' = [gets EXCEPT ![t] = @ + 1]
  /\ failures' = [failures EXCEPT ![t] = @ + 1]
  /\ pc' = [pc EXCEPT ![t] = "mr_loop"]
  /\ UNCHANGED <<quoteVars, universeVars, orchVars, backfillVars, plain, reconnected>>
  /\ UNCHANGED <<quoteVars, universeVars, orchVars, backfillVars, now, limiterVars, ret, client, current_time, wait_time, wake_at,
                 calls, iterations, attempt, acquires, result, start_time>>

\* lines 186-190, 117-119: a ConnectionError; _wait_for_internet is entered
GetConnectionError(t) ==
  /\ pc[t] = "mr_get"
  /\ response' = [response EXCEPT ![t] = "connerr"]
  /\ gets' = [gets EXCEPT ![t] = @ + 1]
  /\ failures' = [failures EXCEPT ![t] = @ + 1]
  /\ start_time' = [start_time EXCEPT ![t] = now]
  /\ pc' = [pc EXCEPT ![t] = "wi_probe"]
  /\ UNCHANGED <<quoteVars, universeVars, orchVars, backfillVars, plain, reconnected>>
  /\ UNCHANGED <<quoteVars, universeVars, orchVars, backfillVars, now, limiterVars, ret, client, current_time, wait_time, wake_at,
                 calls, iterations, attempt, acquires, result>>

\* lines 175, 184, 204: the backoff sleep ends
MRBackoffDone(t) ==
  /\ pc[t] = "mr_sleep"
  /\ now' = Max(now, wake_at[t])
  /\ pc' = [pc EXCEPT ![t] = "mr_loop"]
  /\ UNCHANGED <<quoteVars, universeVars, orchVars, backfillVars, limiterVars, ret, client, current_time, wait_time, wake_at,
                 calls, iterations, requestVars>>

\* lines 124-130, 190-194: the probe succeeds; _wait_for_internet returns True
WIProbeOk(t) ==
  /\ pc[t] = "wi_probe"
  /\ reconnected' = [reconnected EXCEPT ![t] = "True"]
  /\ pc' = [pc EXCEPT ![t] = "mr_loop"]
  /\ UNCHANGED <<quoteVars, universeVars, orchVars, backfillVars, now, limiterVars, ret, client, current_time, wait_time, wake_at,
                 calls, iterations, attempt, result, response, gets, failures,
                 acquires, plain, start_time>>

\* lines 131-138, 190-194: the probe fails after max_wait_seconds; returns False
WIProbeGiveUp(t) ==
  /\ pc[t] = "wi_probe"
  /\ WaitIsOver(start_time[t])
  /\ reconnected' = [reconnected EXCEPT ![t] = "False"]
  /\ pc' = [pc EXCEPT ![t] = "mr_loop"]
  /\ UNCHANGED <<quoteVars, universeVars, orchVars, backfillVars, now, limiterVars, ret, client, current_time, wait_time, wake_at,
                 calls, iterations, attempt, result, response, gets, failures,
                 acquires, plain, start_time>>

\* lines 131-143: the probe fails before max_wait_seconds; sleep and probe again
WIProbeRetry(t) ==
  /\ pc[t] = "wi_probe"
  /\ ~WaitIsOver(start_time[t])
  /\ wake_at' = [wake_at EXCEPT ![t] = now + INTERNET_RETRY_INTERVAL_SECONDS]
  /\ pc' = [pc EXCEPT ![t] = "wi_sleep"]
  /\ UNCHANGED <<quoteVars, universeVars, orchVars, backfillVars, now, limiterVars, ret, client, current_time, wait_time,
                 calls, iterations, requestVars>>

\* line 143: the sleep between probes ends
WISleepDone(t) ==
  /\ pc[t] = "wi_sleep"
  /\ now' = Max(now, wake_at[t])
  /\ pc' = [pc EXCEPT ![t] = "wi_probe"]
  /\ UNCHANGED <<quoteVars, universeVars, orchVars, backfillVars, limiterVars, ret, client, current_time, wait_time, wake_at,
                 calls, iterations, requestVars>>

\* lines 125-131, 186-190: the probe raises a Timeout that is no
\* ConnectionError.  _wait_for_internet catches ConnectionError only, and the
\* call sits in an except clause of _make_request, so the exception leaves
\* _make_request.
WIProbeTimeout(t) ==
  /\ pc[t] = "wi_probe"
  /\ result' = [result EXCEPT ![t] = "raised"]
  /\ pc' = [pc EXCEPT ![t] = "mr_done"]
  /\ UNCHANGED <<quoteVars, universeVars, orchVars, backfillVars, plain, reconnected, now, limiterVars, ret, client, current_time, wait_time, wake_at,
                 calls, iterations, attempt, acquires, response, gets, failures, start_time>>

(***************************************************************************)
(* backfill.py: dates, the batch planner and backfill_data                 *)
(***************************************************************************)
\* date.weekday(): 0 is Monday (day 0 is 2024-01-01, a Monday).
Weekday(d) == d % 7

\* Days of the months of 2024.
MonthDays == <<31, 29, 31, 30, 31, 30, 31, 31, 30, 31, 30, 31>>

RECURSIVE MonthOf(_, _)
\* The <<month, day of month>> of day-of-year d (0-based), searching from month m.
MonthOf(d, m) ==
  IF m = 12 \/ d < MonthDays[m] THEN <<m, d + 1>> ELSE MonthOf(d - MonthDays[m], m + 1)

TwoDigitsUnpadded(n) == ToString(n)
TwoDigits(n) == IF n < 10 THEN "0" \o ToString(n) ELSE ToString(n)

\* lines 166-167: date.strftime("%Y-%m-%d")
Strftime(d) ==
  LET md == MonthOf(d, 1) IN "2024-" \o TwoDigits(md[1]) \o "-" \o TwoDigits(md[2])

RECURSIVE BDateRange(_, _)
\* line 137: pd.bdate_range(start, end).date, the Monday-to-Friday days of
\* [start, end] in ascending order (no holiday calendar is passed).
BDateRange(start, end) ==
  IF start > end THEN <<>>
  ELSE IF Weekday(start) < 5 THEN <<start>> \o BDateRange(start + 1, end)
  ELSE BDateRange(start + 1, end)

\* lines 143-145: [all_dates[i : i + n] for i in range(0, len(all_dates), n)]
GroupDatesOverlapping(dates, n) ==
  [k \in 1..((Len(dates) + n - 1) \div n) |->
     SubSeq(dates, (k - 1) * n + 1, IF k * n + 1 <= Len(dates) THEN k * n + 1 ELSE Len(dates))]
GroupDates(dates, n) ==
  [k \in 1..((Len(dates) + n - 1) \div n) |->
     SubSeq(dates, (k - 1) * n + 1, IF k * n <= Len(dates) THEN k * n ELSE Len(dates))]

\* fmpMarketData.py lines 49-52: the key is rejected when it is no string
\* ("NotAString": None when the key is missing, or any other value) or is
\* the empty string
KeyAcceptedUnlessNoString(key) == key # "NotAString"
KeyAccepted(key) == key \notin {"", "NotAString"}

\* The thread that calls backfill_data.
Caller == 1

\* lines 138-140, 230-236: what backfill_data returns for the frames fetched
NoDataResultNone(out) == "None"
NoDataResult(out) == IF out = "None" THEN "EmptyDataFrame" ELSE "None"

\* lines 125-134: the dates are converted (they are dates already) and the
\* client is constructed (fmpMarketData.py lines 46-72: after the key is
\* accepted, an empty request_timestamps and a new Lock)
BFConstruct ==
  /\ bf_pc = "start"
  /\ KeyAccepted(api_key)
  /\ client' = [client EXCEPT ![Caller] = Caller]
  /\ request_timestamps' = [request_timestamps EXCEPT ![Caller] = <<>>]
  /\ lock' = [lock EXCEPT ![Caller] = NoThread]
  /\ bf_pc' = "plan"
  /\ UNCHANGED <<now, admitted, pc, ret, current_time, wait_time, wake_at, calls,
                 iterations, requestVars>>
  /\ UNCHANGED <<quoteVars, universeVars, orchVars, intraday_result, faults, data_chunk, try_calls, csv, batch_log, api_key, tickers, start_date, end_date, output_filename,
                 all_dates, grouped_dates, ticker_idx, group_idx, from_date_str,
                 to_date_str, bf_attempt, success, all_dfs, fetches, bf_result>>

\* lines 134, 49-52: FMPMarketData() raises ValueError, which leaves
\* backfill_data
BFConstructFails ==
  /\ bf_pc = "start"
  /\ ~KeyAccepted(api_key)
  /\ bf_result' = "ValueError"
  /\ bf_pc' = "done"
  /\ UNCHANGED <<quoteVars, universeVars, orchVars, clientVars, intraday_result, faults, data_chunk, try_calls, csv, batch_log, api_key, tickers, start_date, end_date, output_filename,
                 all_dates, grouped_dates, ticker_idx, group_idx, from_date_str,
                 to_date_str, bf_attempt, success, all_dfs, fetches>>

\* lines 137-140: no business day in the range; return at once
BFNoTradingDays ==
  /\ bf_pc = "plan"
  /\ Len(BDateRange(start_date, end_date)) = 0
  /\ all_dates' = BDateRange(start_date, end_date)
  /\ bf_result' = NoDataResult(output_filename)
  /\ bf_pc' = "done"
  /\ UNCHANGED <<quoteVars, universeVars, orchVars, clientVars, intraday_result, faults, data_chunk, try_calls, csv, batch_log, api_key, tickers, start_date, end_date, output_filename,
                 grouped_dates, ticker_idx, group_idx, from_date_str,
                 to_date_str, bf_attempt, success, all_dfs, fetches>>

\* lines 137-160: the business days are listed and grouped into batches
BFPlan ==
  /\ bf_pc = "plan"
  /\ Len(BDateRange(start_date, end_date)) # 0
  /\ all_dates' = BDateRange(start_date, end_date)
  /\ grouped_dates' = GroupDates(BDateRange(start_date, end_date), BATCH_DAYS)
  /\ all_dfs' = <<>>
  /\ ticker_idx' = 0
  /\ bf_pc' = "tickers"
  /\ UNCHANGED <<quoteVars, universeVars, orchVars, clientVars, intraday_result, faults, data_chunk, try_calls, csv, batch_log, api_key, tickers, start_date, end_date, output_filename,
                 group_idx, from_date_str, to_date_str, bf_attempt, success,
                 fetches, bf_result>>

\* line 163: for ticker in tickers, the next ticker
BFNextTicker ==
  /\ bf_pc = "tickers"
  /\ ticker_idx < Len(tickers)
  /\ ticker_idx' = ticker_idx + 1
  /\ group_idx' = 0
  /\ bf_pc' = "groups"
  /\ UNCHANGED <<quoteVars, universeVars, orchVars, clientVars, intraday_result, faults, data_chunk, try_calls, csv, batch_log, api_key, tickers, start_date, end_date, output_filename,
                 all_dates, grouped_dates, from_date_str, to_date_str, bf_attempt,
                 success, all_dfs, fetches, bf_result>>

\* lines 165-174: for date_group in grouped_dates, the next batch
BFNextGroup ==
  /\ bf_pc = "groups"
  /\ group_idx < Len(grouped_dates)
  /\ group_idx' = group_idx + 1
  /\ LET date_group == grouped_dates[group_idx + 1]
     IN /\ from_date_str' = Strftime(date_group[1])
        /\ to_date_str' = Strftime(date_group[Len(date_group)])
  /\ bf_attempt' = 0
  /\ success' = FALSE
  /\ bf_pc' = "while"
  /\ UNCHANGED <<quoteVars, universeVars, orchVars, clientVars, intraday_result, faults, data_chunk, try_calls, csv, batch_log, api_key, tickers, start_date, end_date, output_filename,
                 all_dates, grouped_dates, ticker_idx, all_dfs, fetches, bf_result>>

\* line 165: the batches of this ticker are exhausted
BFGroupsDone ==
  /\ bf_pc = "groups"
  /\ group_idx = Len(grouped_dates)
  /\ bf_pc' = "tickers"
  /\ UNCHANGED <<quoteVars, universeVars, orchVars, clientVars, intraday_result, faults, data_chunk, try_calls, csv, batch_log, api_key, tickers, start_date, end_date, output_filename,
                 all_dates, grouped_dates, ticker_idx, group_idx, from_date_str,
                 to_date_str, bf_attempt, success, all_dfs, fetches, bf_result>>

\* What get_intraday_data or get_historical_data can do for the caller:
\* return a non-empty list of bars, return nothing usable (None), or raise
\* (an exception that left _make_request).
FetchResults == {"bars", "None", "raises"}

\* The window and ticker of the batch being fetched, as passed to the client.
FetchCallWholeRange(kind) == <<kind, tickers[ticker_idx], Strftime(start_date), Strftime(end_date)>>
FetchCall(kind) == <<kind, tickers[ticker_idx], from_date_str, to_date_str>>

\* lines 175-177: one more pass of the while loop starts
BFTry ==
  /\ bf_pc = "while"
  /\ bf_attempt < MaxTries /\ ~success
  /\ bf_attempt' = bf_attempt + 1
  /\ try_calls' = <<>>
  /\ data_chunk' = "unset"
  /\ intraday_result' = "unset"
  /\ bf_pc' = "intraday"
  /\ UNCHANGED <<quoteVars, universeVars, orchVars, clientVars, faults, csv, batch_log, api_key, tickers, start_date, end_date,
                 output_filename, all_dates, grouped_dates, ticker_idx, group_idx,
                 from_date_str, to_date_str, success, all_dfs, fetches, bf_result>>

\* lines 178-183: data_chunk = fmp.get_intraday_data(...)
BFIntraday ==
  /\ bf_pc = "intraday"
  /\ try_calls' = Append(try_calls, FetchCall("intraday"))
  /\ fetches' = IF fetches < MaxFetches THEN fetches + 1 ELSE fetches
  /\ \E r \in FetchResults :
       /\ r = "raises" => faults < MaxFaults
       /\ faults' = IF r = "raises" THEN faults + 1 ELSE faults
       /\ intraday_result' = r
       /\ data_chunk' = IF r = "raises" THEN data_chunk ELSE r
       /\ bf_pc' = IF r = "raises" THEN "except"
                   ELSE IF r = "None" THEN "daily" ELSE "keep"
  /\ UNCHANGED <<quoteVars, universeVars, orchVars, clientVars, csv, batch_log, api_key, tickers, start_date, end_date,
                 output_filename, all_dates, grouped_dates, ticker_idx, group_idx,
                 from_date_str, to_date_str, bf_attempt, success, all_dfs, bf_result>>

\* lines 184-189: data_chunk is None, so data_chunk = fmp.get_historical_data(...)
BFDaily ==
  /\ bf_pc = "daily"
  /\ data_chunk = "None"
  /\ try_calls' = Append(try_calls, FetchCall("daily"))
  /\ fetches' = IF fetches < MaxFetches THEN fetches + 1 ELSE fetches
  /\ \E r \in FetchResults :
       /\ r = "raises" => faults < MaxFaults
       /\ faults' = IF r = "raises" THEN faults + 1 ELSE faults
       /\ data_chunk' = IF r = "raises" THEN data_chunk ELSE r
       /\ bf_pc' = IF r = "raises" THEN "except" ELSE "keep"
  /\ UNCHANGED <<quoteVars, universeVars, orchVars, clientVars, intraday_result, csv, batch_log, api_key, tickers, start_date, end_date,
                 output_filename, all_dates, grouped_dates, ticker_idx, group_idx,
                 from_date_str, to_date_str, bf_attempt, success, all_dfs, bf_result>>

\* What lines 192-211 can do with a non-empty list of bars:
\*   "kept"            the frame is prepared, appended to all_dfs and, when
\*                     output_path is set, written to the file
\*   "empty"           pd.DataFrame(data_chunk) is empty: a warning only
\*   "prepare_raises"  pd.DataFrame or prepare_data raises
\*   "write_raises"    the frame is prepared and appended to all_dfs, and
\*                     df_chunk.to_csv raises
KeepOutcomes == {"kept", "empty", "prepare_raises", "write_raises"}

\* line 212: success = True is the last statement of the try block, after
\* the if that keeps a frame, whether or not a frame was kept
SuccessOnlyIfKept(kept) == kept
SuccessWhen(kept) == TRUE

\* lines 192-212: data_chunk holds no bars, so nothing is kept; success = True
BFNothingToKeep ==
  /\ bf_pc = "keep"
  /\ data_chunk = "None"
  /\ success' = SuccessWhen(FALSE)
  /\ bf_pc' = "while"
  /\ UNCHANGED <<quoteVars, universeVars, orchVars, clientVars, intraday_result, faults, data_chunk, try_calls, csv, batch_log, api_key, tickers,
                 start_date, end_date, output_filename, all_dates, grouped_dates,
                 ticker_idx, group_idx, from_date_str, to_date_str, bf_attempt,
                 all_dfs, fetches, bf_result>>

\* lines 192-212: data_chunk holds bars.  all_dfs.append(df_chunk) comes before
\* df_chunk.to_csv(...), which runs only when output_path is set; a to_csv
\* that raises may have written none or some of the frame's rows.
BFKeep ==
  /\ bf_pc = "keep"
  /\ data_chunk = "bars"
  /\ \E k \in KeepOutcomes :
       /\ k = "write_raises" => output_filename # "None"
       /\ k \in {"prepare_raises", "write_raises"} => faults < MaxFaults
       /\ faults' = IF k \in {"prepare_raises", "write_raises"} THEN faults + 1 ELSE faults
       /\ all_dfs' = IF k \in {"kept", "write_raises"}
                       THEN Append(all_dfs, <<tickers[ticker_idx], group_idx>>)
                       ELSE all_dfs
       /\ \/ /\ k = "kept" /\ output_filename # "None"
             /\ csv' = Append(csv, <<tickers[ticker_idx], group_idx>>)
          \/ /\ k = "write_raises"
             /\ csv' \in {csv, Append(csv, <<tickers[ticker_idx], group_idx>>)}
          \/ /\ ~(k = "kept" /\ output_filename # "None") /\ k # "write_raises"
             /\ csv' = csv
       /\ success' = (k \in {"kept", "empty"})
       /\ bf_pc' = IF k \in {"kept", "empty"} THEN "while" ELSE "except"
  /\ UNCHANGED <<quoteVars, universeVars, orchVars, clientVars, intraday_result, data_chunk, try_calls, batch_log, api_key, tickers,
                 start_date, end_date, output_filename, all_dates, grouped_dates,
                 ticker_idx, group_idx, from_date_str, to_date_str, bf_attempt,
                 fetches, bf_result>>

\* lines 214-219: except Exception: the error is logged, time.sleep(1), and
\* the while condition is tested again; success stays False
BFExcept ==
  /\ bf_pc = "except"
  /\ bf_pc' = "while"
  /\ UNCHANGED <<quoteVars, universeVars, orchVars, clientVars, intraday_result, faults, data_chunk, try_calls, csv, batch_log, api_key, tickers,
                 start_date, end_date, output_filename, all_dates, grouped_dates,
                 ticker_idx, group_idx, from_date_str, to_date_str, bf_attempt,
                 success, all_dfs, fetches, bf_result>>

\* line 175: the while loop ends, after a success or MaxTries tries
BFTriesDone ==
  /\ bf_pc = "while"
  /\ ~(bf_attempt < MaxTries /\ ~success)
  /\ batch_log' = Append(batch_log, <<ticker_idx, group_idx, success>>)
  /\ bf_pc' = "groups"
  /\ UNCHANGED <<quoteVars, universeVars, orchVars, clientVars, intraday_result, faults, data_chunk, try_calls, csv, api_key, tickers, start_date,
                 end_date, output_filename, all_dates, grouped_dates, ticker_idx,
                 group_idx, from_date_str, to_date_str, bf_attempt, success,
                 all_dfs, fetches, bf_result>>

\* The bars the provider returns for batch gi, in the order of its response
\* (here the newest day first), one bar per day.
ProviderBars(gi) ==
  [i \in 1..Len(grouped_dates[gi]) |-> grouped_dates[gi][Len(grouped_dates[gi]) + 1 - i]]

\* lines 74-99, 193-195: pd.DataFrame(data_chunk) and prepare_data keep the
\* rows in their order, attach the ticker and select the columns.
PrepareData(bars, ticker) == [i \in 1..Len(bars) |-> <<ticker, bars[i]>>]

RECURSIVE ConcatFrames(_)
\* line 233: pd.concat(all_dfs, ignore_index=True), the rows of the frames
\* one frame after the other.
ConcatFrames(frames) ==
  IF frames = <<>> THEN <<>>
  ELSE PrepareData(ProviderBars(Head(frames)[2]), Head(frames)[1])
         \o ConcatFrames(Tail(frames))

\* lines 221-239: all tickers are done; return the frames, or None when a
\* CSV file was asked for
BFReturn ==
  /\ bf_pc = "tickers"
  /\ ticker_idx = Len(tickers)
  /\ bf_result' = IF output_filename = "None" /\ all_dfs # <<>>
                    THEN "DataFrame" ELSE NoDataResult(output_filename)
  /\ bf_pc' = "done"
  /\ UNCHANGED <<quoteVars, universeVars, orchVars, clientVars, intraday_result, faults, data_chunk, try_calls, csv, batch_log, api_key, tickers, start_date, end_date, output_filename,
                 all_dates, grouped_dates, ticker_idx, group_idx, from_date_str,
                 to_date_str, bf_attempt, success, all_dfs, fetches>>

(***************************************************************************)
(* concurrent_backfill and backfill_single_ticker                          *)
(* (concurrent_backfill.py).  backfill_data is one step of a worker here:  *)
(* what it returns or raises.  MQSDBConnector and the market_data table    *)
(* are not part of the sources; the pool hands out at most PoolSize        *)
(* leases, and the table is keyed by (ticker, timestamp).                  *)
(***************************************************************************)
\* The frames backfill_data can return, as the timestamps of their rows: no
\* row, one row, or two rows, with the same timestamp or not.
Frames == {<<>>, <<1>>} \cup {<<1, b>> : b \in 1..MaxStamp}

\* df before backfill_data has returned: the name is not bound.  The
\* timestamps of a frame start at 1.
NoFrame == <<0>>

\* The tasks submitted: one per element of tickers.
Submitted == 1..Len(cb_tickers)

\* The tasks a worker thread of the executor is running.
Running == {w \in Tasks : wpc[w] \notin {"idle", "queued", "finished"}}

\* The text of the numeric cells of a row: its prices and its volume.
Cells == {[price |-> "1.5", volume |-> "100.0"],
          [price |-> "n/a", volume |-> "100.0"],
          [price |-> "1.5", volume |-> "nan"]}


\* lines 107-110: float(text) raises ValueError on a text that is no number
FloatRaises(text) == text = "n/a"

\* line 111: int(float(text)) raises where float does, and on nan
IntOfFloatRaises(text) == FloatRaises(text) \/ text = "nan"

\* lines 100-116: the tuple of a row is built unless a conversion raises
Parses(c) == ~FloatRaises(c.price) /\ ~IntOfFloatRaises(c.volume)

\* The cells the rows of frame f can have: no row but the first fails to
\* parse, and none does in a frame that repeats a timestamp.
CellsOf(f) ==
  {cs \in [1..Len(f) -> Cells] :
     /\ \A i \in 2..Len(f) : Parses(cs[i])
     /\ (\E i, j \in 1..Len(f) : i # j /\ f[i] = f[j])
          => \A i \in 1..Len(f) : Parses(cs[i])}

\* lines 98-116: one tuple per row of df, with the row's ticker and datetime
RowsOf(w) == [i \in 1..Len(df[w]) |-> <<cb_tickers[w], df[w][i]>>]

\* lines 119-127: ON CONFLICT (ticker, timestamp) DO NOTHING is added to the
\* statement when on_conflict is "ignore"
InsertSqlNeverIgnores(policy) == "INSERT"
InsertSql(policy) ==
  IF policy = "ignore" THEN "INSERT ON CONFLICT DO NOTHING" ELSE "INSERT"

Keys(rows) == {rows[i] : i \in 1..Len(rows)}

\* The table's unique key: rows collide when one key comes twice in the
\* statement or is in the table already.
Collides(rows, table) ==
  \/ \E i, j \in 1..Len(rows) : i # j /\ rows[i] = rows[j]
  \/ Keys(rows) \cap Keys(table) # {}

RECURSIVE NewRows(_, _)
\* ON CONFLICT DO NOTHING: the rows in order, without those whose key is in
\* the table or came earlier in the statement.
NewRows(rows, seen) ==
  IF rows = <<>> THEN <<>>
  ELSE IF Head(rows) \in seen THEN NewRows(Tail(rows), seen)
  ELSE <<Head(rows)>> \o NewRows(Tail(rows), seen \cup {Head(rows)})

\* lines 98-116: insert_data = [], then one append per row of df, in the order
\* of df; the except clause inside the loop skips the row and continues
PrepareRowsUntilBad(rows, cs) ==
  LET filled[i \in 0..Len(rows)] ==
        IF i = 0 THEN <<>>
        ELSE IF \A j \in 1..i : Parses(cs[j]) THEN Append(filled[i - 1], rows[i])
        ELSE filled[i - 1]
  IN  filled[Len(rows)]
PrepareRows(rows, cs) ==
  LET filled[i \in 0..Len(rows)] ==
        IF i = 0 THEN <<>>
        ELSE IF Parses(cs[i]) THEN Append(filled[i - 1], rows[i])
        ELSE filled[i - 1]
  IN  filled[Len(rows)]

\* line 129: if insert_data and not dry_run
ShouldInsertEvenEmpty(rows, dry) == ~dry
ShouldInsertEvenDry(rows, dry) == rows # <<>>
ShouldInsert(rows, dry) == rows # <<>> /\ ~dry

\* line 183: leaving the with block is executor.shutdown(wait=True), which
\* returns when every submitted task has ended
ShutdownDoesNotWait == TRUE
ShutdownWaits == \A w \in Submitted : wpc[w] = "finished"

\* line 143: if conn
HoldsLeaseNever(c) == FALSE
HoldsLeaseAlways(c) == TRUE
HoldsLease(c) == c # NoConn

\* line 139: except Exception catches whatever the try block raised
CaughtUnlessConflict(e) == e # "conflict"
Caught(e) == e \in {"none", "conflict", "other"}

\* line 181: db_connector = MQSDBConnector(), before the try
CBConnect ==
  /\ cb_pc = "start"
  /\ cb_pc' = "executor"
  /\ UNCHANGED <<quoteVars, universeVars, clientVars, backfillVars, cb_tickers, threads, dry_run, on_conflict,
                 fut_idx, cb_result, wpc, df, cells, conn, insert_data, future, leased,
                 closes, store, pending, executes, commits, borrows, releases, worker_error,
                 finished_at_close>>

\* lines 183-199: the executor is created and every ticker is submitted
CBSubmit ==
  /\ cb_pc = "executor"
  /\ threads > 0
  /\ wpc' = [w \in Tasks |-> IF w \in Submitted THEN "queued" ELSE wpc[w]]
  /\ fut_idx' = 1
  /\ cb_pc' = "collect"
  /\ UNCHANGED <<quoteVars, universeVars, clientVars, backfillVars, cb_tickers, threads, dry_run, on_conflict,
                 cb_result, df, cells, conn, insert_data, future, leased, closes, store,
                 pending, executes, commits, borrows, releases, worker_error, finished_at_close>>

\* line 183: ThreadPoolExecutor(max_workers=0) raises ValueError, inside the try
CBNoExecutor ==
  /\ cb_pc = "executor"
  /\ threads = 0
  /\ cb_result' = "raising"
  /\ cb_pc' = "finally"
  /\ UNCHANGED <<quoteVars, universeVars, clientVars, backfillVars, cb_tickers, threads, dry_run, on_conflict,
                 fut_idx, wpc, df, cells, conn, insert_data, future, leased, closes, store,
                 pending, executes, commits, borrows, releases, worker_error, finished_at_close>>

\* lines 200-204: fut.result() returns once the task has ended; an Exception
\* of the worker is printed
CBResult ==
  /\ cb_pc = "collect"
  /\ fut_idx <= Len(cb_tickers)
  /\ wpc[fut_idx] = "finished"
  /\ fut_idx' = fut_idx + 1
  /\ UNCHANGED <<quoteVars, universeVars, clientVars, backfillVars, cb_pc, cb_tickers, threads, dry_run,
                 on_conflict, cb_result, wpc, df, cells, conn, insert_data, future, leased,
                 closes, store, pending, executes, commits, borrows, releases, worker_error,
                 finished_at_close>>

\* lines 200-204: the main thread is interrupted (KeyboardInterrupt, which
\* except Exception does not catch) while it waits for a future
CBInterrupt ==
  /\ cb_pc = "collect"
  /\ fut_idx <= Len(cb_tickers)
  /\ cb_result' = "raising"
  /\ cb_pc' = "shutdown"
  /\ UNCHANGED <<quoteVars, universeVars, clientVars, backfillVars, cb_tickers, threads, dry_run, on_conflict,
                 fut_idx, wpc, df, cells, conn, insert_data, future, leased, closes, store,
                 pending, executes, commits, borrows, releases, worker_error, finished_at_close>>

\* line 200: the for loop over the futures ends
CBCollected ==
  /\ cb_pc = "collect"
  /\ fut_idx > Len(cb_tickers)
  /\ cb_pc' = "shutdown"
  /\ UNCHANGED <<quoteVars, universeVars, clientVars, backfillVars, cb_tickers, threads, dry_run, on_conflict,
                 fut_idx, cb_result, wpc, df, cells, conn, insert_data, future, leased,
                 closes, store, pending, executes, commits, borrows, releases, worker_error,
                 finished_at_close>>

\* line 183: leaving the with block is executor.shutdown(wait=True), which
\* returns when every submitted task has ended
CBShutdown ==
  /\ cb_pc = "shutdown"
  /\ ShutdownWaits
  /\ cb_pc' = "finally"
  /\ UNCHANGED <<quoteVars, universeVars, clientVars, backfillVars, cb_tickers, threads, dry_run, on_conflict,
                 fut_idx, cb_result, wpc, df, cells, conn, insert_data, future, leased,
                 closes, store, pending, executes, commits, borrows, releases, worker_error,
                 finished_at_close>>

\* lines 205-208: finally: db_connector.close_all_connections(); the function
\* has no return statement
CBClose ==
  /\ cb_pc = "finally"
  /\ closes' = closes + 1
  /\ finished_at_close' = {w \in Tasks : wpc[w] = "finished"}
  /\ cb_result' = IF cb_result = "raising" THEN "raised" ELSE "None"
  /\ cb_pc' = "returned"
  /\ UNCHANGED <<quoteVars, universeVars, clientVars, backfillVars, cb_tickers, threads, dry_run, on_conflict,
                 fut_idx, wpc, df, cells, conn, insert_data, future, leased, store, pending, executes, commits,
                 borrows, releases, worker_error>>

\* line 183: ThreadPoolExecutor(max_workers=threads) has a worker thread
\* for one more task while fewer than threads tasks run
WorkerFreeUncapped(running) == TRUE
WorkerFreeNever(running) == FALSE
WorkerFree(running) == Cardinality(running) < threads

\* A worker thread of the executor takes a queued task: at most threads
\* tasks run at once.
WStart(w) ==
  /\ wpc[w] = "queued"
  /\ WorkerFree(Running)
  /\ wpc' = [wpc EXCEPT ![w] = "fetch"]
  /\ UNCHANGED <<quoteVars, universeVars, clientVars, backfillVars, mainVars, df, cells, conn, insert_data, future,
                 leased, store, pending, executes, commits, borrows, releases, worker_error>>

\* lines 88-96: an empty frame returns, to the finally clause; only a frame
\* with rows goes on to get_connection
AfterFetchAlwaysBorrows(f) == "borrow"
AfterFetch(f) == IF f = <<>> THEN "finally" ELSE "borrow"

\* lines 76-90: df = backfill_data([ticker], ..., output_filename=None), which
\* returns a frame or raises; an empty frame ends the task
WFetch(w) ==
  /\ wpc[w] = "fetch"
  /\ \/ \E f \in Frames : \E cs \in CellsOf(f) :
          /\ df' = [df EXCEPT ![w] = f]
          /\ cells' = [cells EXCEPT ![w] = cs]
          /\ wpc' = [wpc EXCEPT ![w] = AfterFetch(f)]
          /\ UNCHANGED worker_error
     \/ /\ worker_error' = [worker_error EXCEPT ![w] = "other"]
        /\ wpc' = [wpc EXCEPT ![w] = "finally"]
        /\ UNCHANGED <<df, cells>>
  /\ UNCHANGED <<quoteVars, universeVars, clientVars, backfillVars, mainVars, conn, insert_data, future,
                 leased, store, pending, executes, commits, borrows, releases>>

\* lines 92-96: conn = db_connector.get_connection(): a free lease, or None,
\* which ends the task
WBorrow(w) ==
  /\ wpc[w] = "borrow"
  /\ \/ \E c \in Leases \ leased :
          /\ conn' = [conn EXCEPT ![w] = c]
          /\ leased' = leased \cup {c}
          /\ borrows' = [borrows EXCEPT ![w] = @ + 1]
          /\ wpc' = [wpc EXCEPT ![w] = "prepare"]
     \/ /\ wpc' = [wpc EXCEPT ![w] = "finally"]
        /\ UNCHANGED <<conn, leased, borrows>>
  /\ UNCHANGED <<quoteVars, universeVars, clientVars, backfillVars, mainVars, df, cells, insert_data, future, store,
                 pending, executes, commits, releases, worker_error>>

\* lines 98-116: insert_data gets one tuple per row; a row that does not
\* parse is skipped; an exception outside the per-row try (df.iterrows())
\* goes to the except clause of the function
WPrepare(w) ==
  /\ wpc[w] = "prepare"
  /\ \/ /\ insert_data' = [insert_data EXCEPT ![w] = PrepareRows(RowsOf(w), cells[w])]
        /\ wpc' = [wpc EXCEPT ![w] = "insert"]
        /\ UNCHANGED worker_error
     \/ /\ worker_error' = [worker_error EXCEPT ![w] = "other"]
        /\ wpc' = [wpc EXCEPT ![w] = "finally"]
        /\ UNCHANGED insert_data
  /\ UNCHANGED <<quoteVars, universeVars, clientVars, backfillVars, mainVars, df, cells, conn, future, leased, store,
                 pending, executes, commits, borrows, releases>>

\* lines 118-137, dry run or no valid rows: nothing is executed
WNoInsert(w) ==
  /\ wpc[w] = "insert"
  /\ ~ShouldInsert(insert_data[w], dry_run)
  /\ wpc' = [wpc EXCEPT ![w] = "finally"]
  /\ UNCHANGED <<quoteVars, universeVars, clientVars, backfillVars, mainVars, df, cells, conn, insert_data, future,
                 leased, store, pending, executes, commits, borrows, releases, worker_error>>

\* lines 129-140: an exception raised at a statement of the try block
\* leaves the block there, for the except clause and then the finally clause
OnRaiseGoesOn(at) == IF at = "insert" THEN "commit" ELSE "finally"
OnRaise(at) == "finally"

\* lines 118-131: execute_values(cursor, insert_sql, insert_data).  The
\* statement waits while another open transaction holds one of its keys.
WInsert(w) ==
  /\ wpc[w] = "insert"
  /\ ShouldInsert(insert_data[w], dry_run)
  /\ executes' = [executes EXCEPT ![w] = Append(@, insert_data[w])]
  /\ \A v \in Tasks \ {w} : Keys(pending[v]) \cap Keys(insert_data[w]) = {}
  /\ \/ /\ InsertSql(on_conflict) = "INSERT ON CONFLICT DO NOTHING"
        /\ pending' = [pending EXCEPT ![w] = NewRows(insert_data[w], Keys(store))]
        /\ wpc' = [wpc EXCEPT ![w] = "commit"]
        /\ UNCHANGED worker_error
     \/ /\ InsertSql(on_conflict) = "INSERT"
        /\ ~Collides(insert_data[w], store)
        /\ pending' = [pending EXCEPT ![w] = insert_data[w]]
        /\ wpc' = [wpc EXCEPT ![w] = "commit"]
        /\ UNCHANGED worker_error
     \/ /\ InsertSql(on_conflict) = "INSERT"
        /\ Collides(insert_data[w], store)
        /\ worker_error' = [worker_error EXCEPT ![w] = "conflict"]
        /\ wpc' = [wpc EXCEPT ![w] = OnRaise("insert")]
        /\ UNCHANGED pending
     \/ /\ worker_error' = [worker_error EXCEPT ![w] = "other"]
        /\ wpc' = [wpc EXCEPT ![w] = OnRaise("insert")]
        /\ UNCHANGED pending
  /\ UNCHANGED <<quoteVars, universeVars, clientVars, backfillVars, mainVars, df, cells, conn, insert_data, future,
                 leased, store, commits, borrows, releases>>

\* line 132: conn.commit(), which makes the rows of the transaction visible,
\* or raises and leaves none of them
WCommit(w) ==
  /\ wpc[w] = "commit"
  /\ commits' = [commits EXCEPT ![w] = @ + 1]
  /\ pending' = [pending EXCEPT ![w] = <<>>]
  /\ \/ /\ store' = store \o pending[w]
        /\ wpc' = [wpc EXCEPT ![w] = "finally"]
        /\ UNCHANGED worker_error
     \/ /\ worker_error' = [worker_error EXCEPT ![w] = "other"]
        /\ wpc' = [wpc EXCEPT ![w] = "finally"]
        /\ UNCHANGED store
  /\ UNCHANGED <<quoteVars, universeVars, clientVars, backfillVars, mainVars, df, cells, conn, insert_data, future,
                 leased, executes, borrows, releases>>

\* lines 139-144: an exception raised in the try block has been caught and
\* printed (except Exception); finally: if conn:
\* db_connector.release_connection(conn); the function returns None
WFinally(w) ==
  /\ wpc[w] = "finally"
  /\ IF HoldsLease(conn[w])
       THEN /\ leased' = leased \ {conn[w]}
            /\ releases' = [releases EXCEPT ![w] = @ + 1]
       ELSE UNCHANGED <<leased, releases>>
  /\ future' = [future EXCEPT ![w] = IF Caught(worker_error[w]) THEN "None" ELSE "exception"]
  /\ wpc' = [wpc EXCEPT ![w] = "finished"]
  /\ UNCHANGED <<quoteVars, universeVars, clientVars, backfillVars, mainVars, df, cells, conn, insert_data, store,
                 pending, executes, commits, borrows, worker_error>>

(***************************************************************************)
(* The universe fetches and their side files: get_sp500_tickers,           *)
(* get_commodity_tickers and _write_json_atomic (fmpMarketData.py),        *)
(* get_crypto_tickers and save_crypto_details (crypto_tickers.py).         *)
(*                                                                         *)
(* A file is whether it exists and the pieces of text written to it.  The  *)
(* file object buffers what is written; the buffer reaches the file when   *)
(* it fills, on flush and on close.  What os.fsync has not put on stable   *)
(* storage can be lost, in part, when the machine stops.                   *)
(***************************************************************************)
Universes == {"sp500", "commodity", "crypto"}

\* The "symbol" values of the items received; " " is a blank symbol.
Items == {"AAA", "BBB", " "}

NoFile == [exists |-> FALSE, data |-> <<>>]
FileOf(d) == [exists |-> TRUE, data |-> d]

\* json.dump(list, fp, indent=2): the text of a list, as the pieces written
\* one after the other
Encode(list) == <<"[">> \o list \o <<"]">>

\* str.strip()
Strip(symbol) == IF symbol = " " THEN "" ELSE symbol

\* lines 379-385 and 438-444 of fmpMarketData.py, lines 143-147 of
\* crypto_tickers.py: the symbols that are not blank, in order
ValidSymbols(items) == SelectSeq(items, LAMBDA x : Strip(x) # "")

RECURSIVE Dedupe(_, _)
\* lines 409-415 of fmpMarketData.py, lines 150-156 of crypto_tickers.py:
\* the first occurrence of each symbol, in order
Dedupe(symbols, seen) ==
  IF symbols = <<>> THEN <<>>
  ELSE IF Head(symbols) \in seen THEN Dedupe(Tail(symbols), seen)
  ELSE <<Head(symbols)>> \o Dedupe(Tail(symbols), seen \cup {Head(symbols)})

Prefixes(d) == {SubSeq(d, 1, n) : n \in 0..Len(d)}

\* What is left of file f, named n, when the machine stops.
AfterCrash(f, n) ==
  IF n \in synced \/ ~f.exists THEN {f} ELSE {FileOf(d) : d \in Prefixes(f.data)}

\* fmpMarketData.py lines 365-390 and 424-449: get_sp500_tickers and
\* get_commodity_tickers up to the call of _write_json_atomic
GetIndexTickers ==
  /\ un_pc = "start"
  /\ universe \in {"sp500", "commodity"}
  /\ LET valid == ValidSymbols(payload) IN
       IF valid = <<>>
         THEN /\ un_result' = "empty"
              /\ un_pc' = "returned"
              /\ UNCHANGED to_write
         ELSE /\ to_write' = valid
              /\ un_pc' = "wj_mkdir"
              /\ UNCHANGED un_result
  /\ UNCHANGED <<quoteVars, clientVars, backfillVars, orchVars, universe, payload, target, temp,
                 handle, buffer, dump_idx, temp_path, synced, previous>>

\* fmpMarketData.py lines 392-421 and crypto_tickers.py lines 142-158:
\* get_crypto_tickers up to the write of save_crypto_details
GetCryptoTickers ==
  /\ un_pc = "start"
  /\ universe = "crypto"
  /\ \/ /\ un_result' = "empty"
        /\ un_pc' = "returned"
        /\ UNCHANGED to_write
     \/ /\ Dedupe(payload, {}) # <<>>
        /\ to_write' = Dedupe(ValidSymbols(payload), {})
        /\ un_pc' = "sc_makedirs"
        /\ UNCHANGED un_result
  /\ UNCHANGED <<quoteVars, clientVars, backfillVars, orchVars, universe, payload, target, temp,
                 handle, buffer, dump_idx, temp_path, synced, previous>>

\* line 333: target_path.parent.mkdir(parents=True, exist_ok=True)
WJMkdir ==
  /\ un_pc = "wj_mkdir"
  /\ un_pc' \in {"wj_temp", "wj_except"}
  /\ UNCHANGED <<quoteVars, clientVars, backfillVars, orchVars, universe, payload, to_write,
                 target, temp, handle, buffer, dump_idx, temp_path, synced, previous,
                 un_result>>

\* lines 334-341: tempfile.NamedTemporaryFile(dir=target_path.parent, ...,
\* delete=False) creates the sibling file, or raises OSError
WJTemp ==
  /\ un_pc = "wj_temp"
  /\ \/ /\ temp' = FileOf(<<>>)
        /\ handle' = "temp"
        /\ synced' = synced \ {"temp"}
        /\ un_pc' = "dump"
     \/ /\ un_pc' = "wj_except"
        /\ UNCHANGED <<temp, handle, synced>>
  /\ UNCHANGED <<quoteVars, clientVars, backfillVars, orchVars, universe, payload, to_write,
                 target, buffer, dump_idx, temp_path, previous, un_result>>

\* fmpMarketData.py line 342, crypto_tickers.py line 162: json.dump writes
\* the next piece of the text to the file object
DumpPiece ==
  /\ un_pc = "dump"
  /\ dump_idx < Len(Encode(to_write))
  /\ buffer' = Append(buffer, Encode(to_write)[dump_idx + 1])
  /\ dump_idx' = dump_idx + 1
  /\ UNCHANGED <<quoteVars, clientVars, backfillVars, orchVars, un_pc, universe, payload,
                 to_write, target, temp, handle, temp_path, synced, previous,
                 un_result>>

\* The file object writes its buffer to the file it is open on.
Spill ==
  /\ un_pc = "dump"
  /\ buffer # <<>>
  /\ IF handle = "temp"
       THEN /\ temp' = FileOf(temp.data \o buffer)
            /\ UNCHANGED target
       ELSE /\ target' = FileOf(target.data \o buffer)
            /\ UNCHANGED temp
  /\ synced' = synced \ {handle}
  /\ buffer' = <<>>
  /\ UNCHANGED <<quoteVars, clientVars, backfillVars, orchVars, un_pc, universe, payload,
                 to_write, handle, dump_idx, temp_path, previous, un_result>>

\* fmpMarketData.py line 342, crypto_tickers.py line 162: json.dump returns
DumpDone ==
  /\ un_pc = "dump"
  /\ dump_idx = Len(Encode(to_write))
  /\ un_pc' = IF handle = "temp" THEN "wj_flush" ELSE "sc_close"
  /\ UNCHANGED <<quoteVars, clientVars, backfillVars, orchVars, universe, payload, to_write,
                 target, temp, handle, buffer, dump_idx, temp_path, synced, previous,
                 un_result>>

\* fmpMarketData.py lines 342-344, crypto_tickers.py lines 161-162: a write,
\* the flush or the fsync raises OSError; the with block closes the file,
\* and what was buffered is written or lost.  In _write_json_atomic the
\* except clause is next; save_crypto_details lets the error out, through
\* get_crypto_tickers.
WriteFails ==
  /\ un_pc \in {"dump", "wj_flush", "wj_fsync", "sc_close"}
  /\ \E kept \in Prefixes(buffer) :
       IF handle = "temp"
         THEN /\ temp' = FileOf(temp.data \o kept)
              /\ un_pc' = "wj_except"
              /\ UNCHANGED <<target, un_result>>
         ELSE /\ target' = FileOf(target.data \o kept)
              /\ un_result' = "raised"
              /\ un_pc' = "returned"
              /\ UNCHANGED temp
  /\ synced' = synced \ {handle}
  /\ buffer' = <<>>
  /\ handle' = "none"
  /\ UNCHANGED <<quoteVars, clientVars, backfillVars, orchVars, universe, payload, to_write,
                 dump_idx, temp_path, previous>>

\* line 343: temp_file.flush()
WJFlush ==
  /\ un_pc = "wj_flush"
  /\ temp' = FileOf(temp.data \o buffer)
  /\ buffer' = <<>>
  /\ un_pc' = "wj_fsync"
  /\ UNCHANGED <<quoteVars, clientVars, backfillVars, orchVars, universe, payload, to_write,
                 target, handle, dump_idx, temp_path, synced, previous, un_result>>

\* line 344: os.fsync(temp_file.fileno()) puts what the file holds on stable
\* storage
FsyncSkipped(files) == files
Fsync(files) == files \cup {"temp"}

WJFsync ==
  /\ un_pc = "wj_fsync"
  /\ synced' = Fsync(synced)
  /\ un_pc' = "wj_close"
  /\ UNCHANGED <<quoteVars, clientVars, backfillVars, orchVars, universe, payload, to_write,
                 target, temp, handle, buffer, dump_idx, temp_path, previous,
                 un_result>>

\* lines 345-346: temp_path = Path(temp_file.name); the with block closes the
\* file
WJClose ==
  /\ un_pc = "wj_close"
  /\ temp_path' = "set"
  /\ handle' = "none"
  /\ un_pc' = "wj_replace"
  /\ UNCHANGED <<quoteVars, clientVars, backfillVars, orchVars, universe, payload, to_write,
                 target, temp, buffer, dump_idx, synced, previous, un_result>>

\* lines 347-348: os.replace(temp_path, target_path) puts the sibling in the
\* place of the target in one step, or raises OSError; the caller returns
\* the tickers (lines 389-390, 448-449)
WJReplace ==
  /\ un_pc = "wj_replace"
  /\ \/ /\ target' = temp
        /\ temp' = NoFile
        /\ synced' = (synced \ {"temp", "target"})
                       \cup (IF "temp" \in synced THEN {"target"} ELSE {})
        /\ un_result' = "tickers"
        /\ un_pc' = "returned"
     \/ /\ un_pc' = "wj_except"
        /\ UNCHANGED <<target, temp, synced, un_result>>
  /\ UNCHANGED <<quoteVars, clientVars, backfillVars, orchVars, universe, payload, to_write,
                 handle, buffer, dump_idx, temp_path, previous>>

\* lines 349-363: except (OSError, IOError): the sibling is unlinked when
\* temp_path was set, and False is returned; the caller returns the tickers
WJExcept ==
  /\ un_pc = "wj_except"
  /\ IF temp_path = "set" /\ temp.exists
       THEN temp' \in {NoFile, temp}
       ELSE UNCHANGED temp
  /\ un_result' = "tickers"
  /\ un_pc' = "returned"
  /\ UNCHANGED <<quoteVars, clientVars, backfillVars, orchVars, universe, payload, to_write,
                 target, handle, buffer, dump_idx, temp_path, synced, previous>>

\* crypto_tickers.py line 160: os.makedirs(..., exist_ok=True)
SCMakedirs ==
  /\ un_pc = "sc_makedirs"
  /\ \/ /\ un_pc' = "sc_open"
        /\ UNCHANGED un_result
     \/ /\ un_result' = "raised"
        /\ un_pc' = "returned"
  /\ UNCHANGED <<quoteVars, clientVars, backfillVars, orchVars, universe, payload, to_write,
                 target, temp, handle, buffer, dump_idx, temp_path, synced, previous>>

\* crypto_tickers.py line 161: open(CRYPTO_TICKERS_PATH, "w") creates the
\* file or truncates it, or raises OSError
SCOpen ==
  /\ un_pc = "sc_open"
  /\ \/ /\ target' = FileOf(<<>>)
        /\ synced' = synced \ {"target"}
        /\ handle' = "target"
        /\ un_pc' = "dump"
        /\ UNCHANGED un_result
     \/ /\ un_result' = "raised"
        /\ un_pc' = "returned"
        /\ UNCHANGED <<target, synced, handle>>
  /\ UNCHANGED <<quoteVars, clientVars, backfillVars, orchVars, universe, payload, to_write,
                 temp, buffer, dump_idx, temp_path, previous>>

\* crypto_tickers.py lines 161-168: the with block closes the file, which
\* writes the buffer; get_crypto_tickers returns the symbols (line 422)
SCClose ==
  /\ un_pc = "sc_close"
  /\ target' = FileOf(target.data \o buffer)
  /\ buffer' = <<>>
  /\ handle' = "none"
  /\ un_result' = "tickers"
  /\ un_pc' = "returned"
  /\ UNCHANGED <<quoteVars, clientVars, backfillVars, orchVars, universe, payload, to_write,
                 temp, dump_idx, temp_path, synced, previous>>

\* The process or the machine stops: the buffer of the file object is gone,
\* and of a file that was not synced any prefix can be left.
Crash ==
  /\ un_pc \notin {"idle", "crashed"}
  /\ target' \in AfterCrash(target, "target")
  /\ temp' \in AfterCrash(temp, "temp")
  /\ buffer' = <<>>
  /\ handle' = "none"
  /\ un_pc' = "crashed"
  /\ UNCHANGED <<quoteVars, clientVars, backfillVars, orchVars, universe, payload, to_write,
                 dump_idx, temp_path, synced, previous, un_result>>

(***************************************************************************)
(* FMPMarketData.get_current_price                                         *)
(***************************************************************************)
\* A JSON value found under "price": a number, a string or null, with its
\* text.
Prices ==
  {[json |-> "number", text |-> "150"], [json |-> "number", text |-> "0"],
   [json |-> "string", text |-> "150"], [json |-> "string", text |-> "N/A"],
   [json |-> "null", text |-> ""]}

Null == [json |-> "null", text |-> ""]

\* The entries of a response list: an object with or without a "price", or
\* a value that is no object (a number, or a string without "price" in it).
Entries ==
  {[type |-> "dict", has_price |-> TRUE, price |-> p] : p \in Prices}
    \cup {[type |-> ty, has_price |-> FALSE, price |-> Null] : ty \in {"dict", "int", "str"}}

\* What _make_request hands to its caller: the parsed body (a list or
\* another JSON value), None, or an exception.
Payloads ==
  {[kind |-> k, items |-> <<>>] : k \in {"None", "raised", "dict"}}
    \cup {[kind |-> "list", items |-> l] : l \in UNION {[1..n -> Entries] : n \in 0..MaxQuotes}}

Value(v) == [kind |-> "value", value |-> v]
Raised == [kind |-> "raised", value |-> 0]
Unset == [kind |-> "unset", value |-> 0]

\* The number a numeral denotes.
Num(text) == IF text = "150" THEN 150 ELSE 0

\* line 319: float(x) of a number or of a string that is a numeral; of any
\* other string it raises ValueError
Float(p) ==
  IF p.json = "number" \/ p.text \in {"150", "0"} THEN Value(Num(p.text)) ELSE Raised

\* lines 312-324: the body of the try block
PriceOf(data) ==
  IF data.kind = "raised" THEN Raised
  ELSE IF data.kind # "list" \/ data.items = <<>> THEN Value(0)
  ELSE LET first == data.items[1] IN
         IF first.type = "int" THEN Raised      \* "price" in 5 raises TypeError
         ELSE IF ~first.has_price THEN Value(0)
         ELSE IF first.price.json = "null" THEN Value(0)
         ELSE Float(first.price)

\* lines 326-328: except Exception: log and return 0.0
OnExceptionReraise(r) == r
OnException(r) == Value(0)

\* lines 311-328
GetCurrentPrice(data) ==
  IF PriceOf(data).kind = "raised" THEN OnException(PriceOf(data)) ELSE PriceOf(data)

\* line 312: data = self._make_request(url, params) has returned or raised
GCPRequest ==
  /\ gcp_pc = "start"
  /\ gcp_pc' = "requested"
  /\ UNCHANGED <<clientVars, backfillVars, orchVars, universeVars, gcp_data, gcp_result>>

\* lines 313-328: the price, or 0.0
GCPReturn ==
  /\ gcp_pc = "requested"
  /\ gcp_result' = GetCurrentPrice(gcp_data)
  /\ gcp_pc' = "returned"
  /\ UNCHANGED <<clientVars, backfillVars, orchVars, universeVars, gcp_data>>

vars == <<clientVars, backfillVars, orchVars, universeVars, quoteVars>>

(***************************************************************************)
(* SpecLimiter: the threads of one process share one FMPMarketData.        *)
(***************************************************************************)
InitThreads ==
  /\ now = 0
  /\ request_timestamps = [c \in Clients |-> <<>>]
  /\ lock = [c \in Clients |-> NoThread]
  /\ pc = [t \in Threads |-> "idle"]
  /\ ret = [t \in Threads |-> "idle"]
  /\ current_time = [t \in Threads |-> 0]
  /\ wait_time = [t \in Threads |-> 0]
  /\ wake_at = [t \in Threads |-> 0]
  /\ calls = 0
  /\ iterations = [t \in Threads |-> 0]
  /\ admitted = <<>>
  /\ attempt = [t \in Threads |-> 0]
  /\ result = [t \in Threads |-> "unset"]
  /\ response = [t \in Threads |-> "none"]
  /\ gets = [t \in Threads |-> 0]
  /\ failures = [t \in Threads |-> 0]
  /\ acquires = [t \in Threads |-> 0]
  /\ plain = [t \in Threads |-> TRUE]
  /\ reconnected = [t \in Threads |-> "unset"]
  /\ start_time = [t \in Threads |-> 0]

\* No backfill_data call is in progress.
InitNoBackfill ==
  /\ bf_pc = "idle"
  /\ api_key = "key"
  /\ tickers = <<>>
  /\ start_date = 0
  /\ end_date = 0
  /\ output_filename = "None"
  /\ all_dates = <<>>
  /\ grouped_dates = <<>>
  /\ ticker_idx = 0
  /\ group_idx = 0
  /\ from_date_str = ""
  /\ to_date_str = ""
  /\ bf_attempt = 0
  /\ success = FALSE
  /\ all_dfs = <<>>
  /\ fetches = 0
  /\ bf_result = "unset"
  /\ data_chunk = "unset"
  /\ try_calls = <<>>
  /\ csv = <<>>
  /\ batch_log = <<>>
  /\ faults = 0
  /\ intraday_result = "unset"

\* No get_current_price call is in progress.
InitNoQuote ==
  /\ gcp_pc = "idle"
  /\ gcp_data = [kind |-> "None", items |-> <<>>]
  /\ gcp_result = Unset

\* No universe fetch is in progress.
InitNoUniverse ==
  /\ un_pc = "idle"
  /\ universe = "sp500"
  /\ payload = <<>>
  /\ to_write = <<>>
  /\ target = NoFile
  /\ temp = NoFile
  /\ handle = "none"
  /\ buffer = <<>>
  /\ dump_idx = 0
  /\ temp_path = "None"
  /\ synced = {}
  /\ previous = NoFile
  /\ un_result = "unset"

\* No concurrent_backfill run is in progress.
InitNoOrchestrator ==
  /\ cb_pc = "idle"
  /\ cb_tickers = <<>>
  /\ threads = 0
  /\ dry_run = FALSE
  /\ on_conflict = "fail"
  /\ fut_idx = 0
  /\ cb_result = "unset"
  /\ wpc = [w \in Tasks |-> "idle"]
  /\ df = [w \in Tasks |-> NoFrame]
  /\ cells = [w \in Tasks |-> <<>>]
  /\ conn = [w \in Tasks |-> NoConn]
  /\ insert_data = [w \in Tasks |-> <<>>]
  /\ future = [w \in Tasks |-> "unset"]
  /\ leased = {}
  /\ closes = 0
  /\ store = <<>>
  /\ pending = [w \in Tasks |-> <<>>]
  /\ executes = [w \in Tasks |-> <<>>]
  /\ commits = [w \in Tasks |-> 0]
  /\ borrows = [w \in Tasks |-> 0]
  /\ releases = [w \in Tasks |-> 0]
  /\ worker_error = [w \in Tasks |-> "none"]
  /\ finished_at_close = {}

InitLimiter ==
  /\ InitThreads
  /\ InitNoQuote
  /\ InitNoUniverse
  /\ InitNoBackfill
  /\ InitNoOrchestrator
  /\ client = [t \in Threads |-> 1]

NextLimiter ==
  \/ Tick
  \/ \E t \in Threads : Call(t)
  \/ \E t \in Threads : RLLock(t)
  \/ \E t \in Threads : RLAdmit(t)
  \/ \E t \in Threads : RLReject(t)
  \/ \E t \in Threads : RLSleep(t)
  \/ \E t \in Threads : RLWake(t)

SpecLimiter == InitLimiter /\ [][NextLimiter]_vars

\* A thread inside _check_rate_limit keeps running: it gets the lock when
\* the lock stays free, goes through the with block, and its time.sleep
\* ends.  Nothing is assumed about the clock beyond that.
RateLimitStep(t) == RLLock(t) \/ RLAdmit(t) \/ RLReject(t) \/ RLSleep(t) \/ RLWake(t)

SpecLimiterFair == SpecLimiter /\ \A t \in Threads : WF_vars(RateLimitStep(t))

(***************************************************************************)
(* SpecWorkers: the worker threads of one concurrent_backfill run.  Each   *)
(* runs backfill_single_ticker, whose backfill_data constructs its client  *)
(* and sends that ticker's requests through it.                            *)
(***************************************************************************)
InitWorkers ==
  /\ InitThreads
  /\ InitNoQuote
  /\ InitNoUniverse
  /\ InitNoBackfill
  /\ InitNoOrchestrator
  /\ client = [t \in Threads |-> NoClient]

NextWorkers ==
  \/ Tick
  \/ \E t \in Threads : NewClient(t)
  \/ \E t \in Threads : Call(t)
  \/ \E t \in Threads : RLLock(t)
  \/ \E t \in Threads : RLAdmit(t)
  \/ \E t \in Threads : RLReject(t)
  \/ \E t \in Threads : RLSleep(t)
  \/ \E t \in Threads : RLWake(t)

SpecWorkers == InitWorkers /\ [][NextWorkers]_vars

(***************************************************************************)
(* SpecRequest: one thread makes one logical request through its client.   *)
(***************************************************************************)
Requesters == {1}

NextRequest ==
  \/ \E t \in Requesters : MakeRequest(t)
  \/ \E t \in Requesters : MRNextAttempt(t)
  \/ \E t \in Requesters : MRExhausted(t)
  \/ \E t \in Requesters : MRAcquire(t)
  \/ \E t \in Requesters : GetOk(t)
  \/ \E t \in Requesters : GetBadBody(t)
  \/ \E t \in Requesters : GetBackoff(t)
  \/ \E t \in Requesters : GetOtherStatus(t)
  \/ \E t \in Requesters : GetConnectionError(t)
  \/ \E t \in Requesters : MRBackoffDone(t)
  \/ \E t \in Requesters : WIProbeOk(t)
  \/ \E t \in Requesters : WIProbeGiveUp(t)
  \/ \E t \in Requesters : WIProbeRetry(t)
  \/ \E t \in Requesters : WISleepDone(t)
  \/ \E t \in Requesters : WIProbeTimeout(t)

SpecRequest == InitLimiter /\ [][NextRequest]_vars

\* The thread that makes the request keeps running: a probe ends, a sleep
\* ends.
SpecRequestFair == SpecRequest /\ WF_vars(NextRequest)

(***************************************************************************)
(* SpecBackfill: one call of backfill_data.                                *)
(***************************************************************************)
AllTickers == <<"AAPL", "MSFT">>

InitBackfill ==
  /\ InitThreads
  /\ InitNoQuote
  /\ InitNoUniverse
  /\ InitNoOrchestrator
  /\ client = [t \in Threads |-> NoClient]
  /\ bf_pc = "start"
  /\ api_key \in {"key", "", "NotAString"}
  /\ tickers \in {SubSeq(AllTickers, 1, n) : n \in 0..Len(AllTickers)}
  /\ start_date \in 0..MaxDay
  /\ end_date \in start_date..MaxDay
  /\ output_filename \in {"None", "backfilled_data.csv"}
  /\ all_dates = <<>>
  /\ grouped_dates = <<>>
  /\ ticker_idx = 0
  /\ group_idx = 0
  /\ from_date_str = ""
  /\ to_date_str = ""
  /\ bf_attempt = 0
  /\ success = FALSE
  /\ all_dfs = <<>>
  /\ fetches = 0
  /\ bf_result = "unset"
  /\ data_chunk = "unset"
  /\ try_calls = <<>>
  /\ csv = <<>>
  /\ batch_log = <<>>
  /\ faults = 0
  /\ intraday_result = "unset"

NextBackfill ==
  \/ BFConstruct
  \/ BFConstructFails
  \/ BFNoTradingDays
  \/ BFPlan
  \/ BFNextTicker
  \/ BFNextGroup
  \/ BFGroupsDone
  \/ BFTry
  \/ BFIntraday
  \/ BFDaily
  \/ BFNothingToKeep
  \/ BFKeep
  \/ BFExcept
  \/ BFTriesDone
  \/ BFReturn

SpecBackfill == InitBackfill /\ [][NextBackfill]_vars

\* The thread that runs backfill_data keeps running and every fetch returns
\* or raises.
SpecBackfillFair == SpecBackfill /\ WF_vars(NextBackfill)

(***************************************************************************)
(* SpecQuote: one call of get_current_price, for every outcome of the      *)
(* request.                                                                *)
(***************************************************************************)
InitQuote ==
  /\ InitThreads
  /\ client = [t \in Threads |-> 1]
  /\ InitNoBackfill
  /\ InitNoOrchestrator
  /\ InitNoUniverse
  /\ gcp_pc = "start"
  /\ gcp_data \in Payloads
  /\ gcp_result = Unset

NextQuote ==
  \/ GCPRequest
  \/ GCPReturn

SpecQuote == InitQuote /\ [][NextQuote]_vars

(***************************************************************************)
(* Properties of the rate limiter.                                         *)
(***************************************************************************)
\* Admissions of client c whose recorded time lies in the trailing window
\* of LOCK_WINDOW_SECONDS that ends at instant T.
InWindow(c, T) ==
  {i \in DOMAIN admitted :
     /\ admitted[i][1] = c
     /\ admitted[i][2] <= T
     /\ (T - admitted[i][2]) < LOCK_WINDOW_SECONDS}

\* All admissions, of whatever client, in the window that ends at T.
InWindowAll(T) ==
  {i \in DOMAIN admitted :
     /\ admitted[i][2] <= T
     /\ (T - admitted[i][2]) < LOCK_WINDOW_SECONDS}

\* Thread t returns from _check_rate_limit in this step.
Returns(t) == pc[t] \in RLPcs /\ pc'[t] \notin RLPcs

WindowBounded ==
  \A c \in Clients : \A T \in 0..now :
    Cardinality(InWindow(c, T)) <= MAX_REQUESTS_PER_MIN

ReturnRecordsOne ==
  /\ \A t \in Threads :
       Returns(t) =>
         /\ pc[t] = "rl_locked"
         /\ lock[client[t]] = t
         /\ request_timestamps'[client[t]] =
              Append(Purge(request_timestamps[client[t]], current_time[t]),
                     current_time[t])
         /\ admitted' = Append(admitted, <<client[t], current_time[t]>>)
  /\ \A c \in Clients :
       (~ \E t \in Threads : client[t] = c /\ Returns(t)) =>
         Len(request_timestamps'[c]) <= Len(request_timestamps[c])

\* C1: for one limiter and any interleaving of the threads calling
\* _check_rate_limit, no trailing window of LOCK_WINDOW_SECONDS holds more
\* than MAX_REQUESTS_PER_MIN recorded admissions, and every return records
\* exactly one timestamp in the same critical section as the check that
\* admitted it (the list grows by that one entry and by nothing else).
C1_WindowNeverExceeded == []WindowBounded /\ [][ReturnRecordsOne]_vars

\* C1 witness: the limit is reached inside one window by two threads, and a
\* later call was admitted after the window moved on.
C1_Witness ==
  /\ \E T \in 0..now : Cardinality(InWindow(1, T)) = MAX_REQUESTS_PER_MIN
  /\ \E i, j \in DOMAIN admitted : admitted[j][2] - admitted[i][2] >= LOCK_WINDOW_SECONDS
  /\ \A t \in Threads : iterations[t] >= 1 /\ pc[t] = "idle"

\* C2 (as claimed): the worker threads of one concurrent_backfill run share
\* one rate limiter, so all the requests they have admitted together in any
\* trailing window of LOCK_WINDOW_SECONDS number at most
\* MAX_REQUESTS_PER_MIN.
C2_WorkersShareOneLimiter ==
  \A T \in 0..now : Cardinality(InWindowAll(T)) <= MAX_REQUESTS_PER_MIN

\* C3 (as claimed): threads calling one client together never have more than
\* the documented 2999 requests (DocumentedLimit) admitted in a 60 s window.
C3_DocumentedLimitKept ==
  \A T \in 0..now : Cardinality(InWindow(1, T)) <= DocumentedLimit

\* C4: an excess call never returns while MAX_REQUESTS_PER_MIN recorded
\* timestamps are still less than LOCK_WINDOW_SECONDS old: at every return,
\* fewer than MAX_REQUESTS_PER_MIN earlier admissions of that limiter are
\* younger than the window, measured at the instant the call read the clock
\* and so also at the later instant of the return.
C4_ExcessCallsBlock ==
  [][\A t \in Threads :
       Returns(t) =>
         /\ Cardinality({i \in DOMAIN admitted :
                           /\ admitted[i][1] = client[t]
                           /\ (current_time[t] - admitted[i][2]) < LOCK_WINDOW_SECONDS})
              < MAX_REQUESTS_PER_MIN
         /\ Cardinality({i \in DOMAIN admitted :
                           /\ admitted[i][1] = client[t]
                           /\ (now - admitted[i][2]) < LOCK_WINDOW_SECONDS})
              < MAX_REQUESTS_PER_MIN]_vars

\* C4 witness: a call that found the limiter full slept and was admitted on
\* a later pass of the loop, at least a window after the oldest admission.
C4_Witness ==
  \E t \in Threads :
    /\ pc[t] = "idle"
    /\ iterations[t] >= 2
    /\ Len(admitted) > MAX_REQUESTS_PER_MIN
    /\ admitted[Len(admitted)][2] - admitted[1][2] >= LOCK_WINDOW_SECONDS

\* Thread t holds the lock of its client.
HoldsLock(t) == client[t] # NoClient /\ lock[client[t]] = t

\* C25: a thread holds self._lock exactly while it is in the with block: it
\* has released it when it sleeps, the list request_timestamps changes only
\* in a step of the thread that holds the lock, a return happens only from
\* inside the with block, and a thread that wakes starts the while loop
\* over, taking the lock, purging and checking again.
C25_NoSleepUnderLock ==
  /\ [](\A t \in Threads : pc[t] \in {"rl_unlocked", "rl_sleep"} => ~HoldsLock(t))
  /\ [](\A t \in Threads : HoldsLock(t) <=> pc[t] = "rl_locked")
  /\ [][\A c \in Clients :
          request_timestamps'[c] # request_timestamps[c] =>
            \E t \in Threads : client[t] = c /\ HoldsLock(t) /\ pc'[t] # pc[t]]_vars
  /\ [][\A t \in Threads :
          /\ (pc[t] = "rl_locked" /\ pc'[t] = "rl_unlocked") => lock'[client[t]] = NoThread
          /\ (pc[t] = "rl_unlocked" /\ pc'[t] # pc[t]) => pc'[t] = "rl_sleep"
          /\ (pc[t] = "rl_sleep" /\ pc'[t] # pc[t]) => pc'[t] = "rl_enter"
          /\ (pc[t] = "rl_enter" /\ pc'[t] # pc[t]) => pc'[t] = "rl_locked"
          /\ Returns(t) => pc[t] = "rl_locked"]_vars

\* C25 witness: one thread sleeps for a positive wait_time while another is
\* inside the with block, holding the lock.
C25_Witness ==
  \E t, u \in Threads :
    /\ pc[t] = "rl_sleep" /\ wait_time[t] > 0 /\ wake_at[t] > now
    /\ pc[u] = "rl_locked" /\ lock[client[u]] = u /\ client[u] = client[t]

\* C26: at every inspection of request_timestamps (the admission check of
\* line 92 and the read of the oldest entry of line 98) the list has just
\* been purged: each timestamp it holds is less than LOCK_WINDOW_SECONDS
\* older than the current_time the thread read under the lock, and none is
\* later.
C26_InspectedListIsFresh ==
  [][\A t \in Threads :
       (pc[t] = "rl_locked" /\ pc'[t] # "rl_locked") =>
         LET ts == request_timestamps'[client[t]]
             inspected == IF Returns(t) THEN SubSeq(ts, 1, Len(ts) - 1) ELSE ts
         IN /\ \A i \in 1..Len(inspected) :
                 /\ inspected[i] <= current_time[t]
                 /\ current_time[t] - inspected[i] < LOCK_WINDOW_SECONDS
            /\ \A i \in 1..Len(request_timestamps[client[t]]) :
                 (current_time[t] - request_timestamps[client[t]][i] < LOCK_WINDOW_SECONDS)
                   => \E j \in 1..Len(inspected) :
                        inspected[j] = request_timestamps[client[t]][i]]_vars

\* C26 witness: a call was admitted after its purge removed a timestamp that
\* had left the window.
C26_Witness ==
  /\ Len(admitted) > Len(request_timestamps[1])
  /\ request_timestamps[1] # <<>>
  /\ \E i \in DOMAIN admitted :
       request_timestamps[1][Len(request_timestamps[1])] - admitted[i][2]
         >= LOCK_WINDOW_SECONDS

\* Thread t is inside _check_rate_limit.
InRateLimit(t) == pc[t] \in RLPcs

\* C37: every call of _check_rate_limit returns.  The lock is held only
\* inside the with block, by a thread that is about to leave it; a caller
\* that is refused sleeps a positive time, to the instant the oldest
\* timestamp expires; with finitely many calls by finitely many threads
\* every caller is admitted in the end.
C37_EveryAcquireReturns ==
  /\ \A t \in Threads : InRateLimit(t) ~> ~InRateLimit(t)
  /\ [](\A c \in Clients : lock[c] # NoThread => pc[lock[c]] = "rl_locked")
  /\ [](\A t \in Threads : pc[t] \in {"rl_unlocked", "rl_sleep"} => wait_time[t] > 0)
  /\ [][\A t \in Threads :
          (pc[t] = "rl_sleep" /\ pc'[t] # pc[t]) =>
            (pc'[t] = "rl_enter" /\ now' >= current_time[t] + wait_time[t])]_vars

\* C37 witness: every call the threads make has returned, one of them
\* after it was refused and slept: no caller is left inside.
C37_Witness ==
  /\ calls = MaxCalls
  /\ Len(admitted) = MaxCalls
  /\ \A t \in Threads : pc[t] = "idle"
  /\ \E t \in Threads : iterations[t] >= 2

(***************************************************************************)
(* Properties of _make_request.                                            *)
(***************************************************************************)
\* C5 (as claimed): after MAX_RETRIES consecutive non-success outcomes, each
\* a 429, another non-200 status, a timeout or a connection failure followed
\* by the connectivity wait, _make_request has returned None and has not
\* raised.
C5_ExhaustedReturnsNone ==
  \A t \in Threads :
    (/\ pc[t] = "mr_done"
     /\ failures[t] = MAX_RETRIES
     /\ plain[t]) => result[t] = "None"

\* C6 (as claimed): no exception ever leaves _make_request, whatever the
\* provider call and the connectivity probe produce: the call ends with a
\* parsed body or with None.
C6_NoExceptionEscapes ==
  \A t \in Threads : pc[t] = "mr_done" => result[t] \in {"body", "None"}

\* C7 (as claimed): at most MAX_RETRIES requests.get calls per logical
\* request, one per attempt whatever the failure kind, the loop going on
\* after _wait_for_internet returned either way; and after the first HTTP
\* 200 no further requests.get is made.
C7_First200EndsLoop ==
  /\ [](\A t \in Threads : gets[t] <= MAX_RETRIES)
  /\ [][\A t \in Threads :
          response[t] \in {"200", "200bad"} => gets'[t] = gets[t]]_vars

OneGetPerAttempt ==
  \A t \in Threads :
    /\ gets[t] <= MAX_RETRIES
    /\ attempt[t] <= MAX_RETRIES
    /\ gets[t] = IF pc[t] \in {"mr_acquire", "mr_get"} THEN attempt[t] - 1 ELSE attempt[t]
    /\ (pc[t] = "mr_done" /\ result[t] = "None") =>
         gets[t] = MAX_RETRIES /\ failures[t] = MAX_RETRIES

\* C7 (amended): at most MAX_RETRIES requests.get calls per logical request,
\* exactly one per attempt whatever the failure kind; None is returned only
\* after all MAX_RETRIES attempts were made, so a connection failure costs one
\* attempt and the loop goes on after _wait_for_internet returned True or
\* False; after the first HTTP 200 whose body parses no further requests.get
\* is made, and _wait_for_internet hands control back to the loop with the
\* attempt number unchanged.
C7_AttemptBudget ==
  /\ []OneGetPerAttempt
  /\ [][\A t \in Threads :
          /\ response[t] = "200" => gets'[t] = gets[t]
          /\ (pc[t] = "wi_probe" /\ pc'[t] # "wi_probe" /\ result'[t] = "pending") =>
               (pc'[t] \in {"mr_loop", "wi_sleep"} /\ attempt'[t] = attempt[t])]_vars

\* C7 witness: the last attempt is being made after a connection failure
\* whose connectivity wait gave up unconfirmed, in a call that has also seen
\* a failure outside the plain kinds.
C7_Witness ==
  \E t \in Threads :
    /\ pc[t] = "mr_get"
    /\ attempt[t] = MAX_RETRIES
    /\ response[t] = "connerr"
    /\ reconnected[t] = "False"
    /\ ~plain[t]

\* Thread t is inside _wait_for_internet.
Waiting(t) == pc[t] \in {"wi_probe", "wi_sleep"}

\* C27: _wait_for_internet ends.  It starts with a probe; it returns True at
\* the first probe that succeeds; after a probe that fails with a
\* ConnectionError it returns False when INTERNET_MAX_WAIT_SECONDS or more
\* have elapsed since it started, and otherwise sleeps
\* INTERNET_RETRY_INTERVAL_SECONDS and probes again, so a wait never lasts
\* INTERNET_MAX_WAIT_SECONDS + INTERNET_RETRY_INTERVAL_SECONDS.  (A probe
\* that raises another exception ends the wait by raising.)
C27_ConnectivityWaitEnds ==
  /\ \A t \in Requesters : pc[t] = "wi_probe" ~> ~Waiting(t)
  /\ [](\A t \in Requesters :
          Waiting(t) =>
            now - start_time[t] < INTERNET_MAX_WAIT_SECONDS + INTERNET_RETRY_INTERVAL_SECONDS)
  /\ [][\A t \in Requesters :
          /\ (~Waiting(t) /\ Waiting(t)') => (pc'[t] = "wi_probe" /\ start_time'[t] = now)
          /\ (Waiting(t) /\ ~Waiting(t)') =>
               /\ pc[t] = "wi_probe"
               /\ \/ reconnected'[t] = "True"
                  \/ /\ reconnected'[t] = "False"
                     /\ now - start_time[t] >= INTERNET_MAX_WAIT_SECONDS
                  \/ result'[t] = "raised"
          /\ (pc[t] = "wi_probe" /\ pc'[t] = "wi_sleep") =>
               /\ now - start_time[t] < INTERNET_MAX_WAIT_SECONDS
               /\ wake_at'[t] = now + INTERNET_RETRY_INTERVAL_SECONDS
          /\ (pc[t] = "wi_sleep" /\ pc'[t] # pc[t]) =>
               (pc'[t] = "wi_probe" /\ now' = wake_at[t])]_vars

\* C27 witness: a wait whose probes kept failing has returned False, after
\* INTERNET_MAX_WAIT_SECONDS.
C27_Witness ==
  \E t \in Requesters :
    /\ pc[t] = "mr_loop"
    /\ response[t] = "connerr"
    /\ reconnected[t] = "False"
    /\ now - start_time[t] = INTERNET_MAX_WAIT_SECONDS

C35_AcquirePerAttempt ==
  /\ [](\A t \in Requesters :
          /\ gets[t] <= acquires[t]
          /\ failures[t] <= gets[t]
          /\ acquires[t] = IF pc[t] = "mr_get" THEN gets[t] + 1 ELSE gets[t])
  /\ [][\A t \in Requesters :
          gets'[t] # gets[t] =>
            /\ pc[t] = "mr_get"
            /\ gets'[t] = gets[t] + 1
            /\ acquires'[t] = acquires[t]
            /\ acquires[t] = gets'[t]]_vars
  /\ [][\A t \in Requesters :
          (pc[t] # "mr_get" /\ pc'[t] = "mr_get") =>
            (pc[t] = "mr_acquire" /\ acquires'[t] = acquires[t] + 1)]_vars

\* C35 witness: a call whose MAX_RETRIES attempts all failed has returned
\* after MAX_RETRIES acquires and as many GETs.
C35_Witness ==
  \E t \in Requesters :
    /\ pc[t] = "mr_done"
    /\ result[t] = "None"
    /\ acquires[t] = MAX_RETRIES
    /\ gets[t] = MAX_RETRIES
    /\ failures[t] = MAX_RETRIES

\* C39: the backoff follows the last attempt as it follows the others:
\* when attempt number MAX_RETRIES meets a 429 or a timeout, _make_request
\* sleeps RateLimitBackoff * MAX_RETRIES or TimeoutBackoff * MAX_RETRIES, and
\* returns None only when that sleep has ended.
C39_BackoffAfterLastAttempt ==
  /\ [][\A t \in Requesters :
          (pc[t] = "mr_get" /\ attempt[t] = MAX_RETRIES /\ response'[t] \in {"429", "timeout"})
            => /\ pc'[t] = "mr_sleep"
               /\ result'[t] = "pending"
               /\ wake_at'[t] = now + (IF response'[t] = "429" THEN RateLimitBackoff
                                       ELSE TimeoutBackoff) * MAX_RETRIES]_vars
  /\ [][\A t \in Requesters :
          (result[t] # "None" /\ result'[t] = "None")
            => /\ pc[t] = "mr_loop"
               /\ attempt[t] = MAX_RETRIES
               /\ response[t] \in {"429", "timeout"} => now >= wake_at[t]]_vars
  /\ [](\A t \in Requesters :
          (pc[t] = "mr_loop" /\ response[t] \in {"429", "timeout"}) => now >= wake_at[t])

\* C39 witness: the last attempt met a 429, the call slept
\* RateLimitBackoff * MAX_RETRIES from the instant of that answer, and has
\* returned None at the end of the sleep.
C39_Witness ==
  \E t \in Requesters :
    /\ pc[t] = "mr_done"
    /\ result[t] = "None"
    /\ response[t] = "429"
    /\ attempt[t] = MAX_RETRIES
    /\ now = wake_at[t]
    /\ now >= RateLimitBackoff * MAX_RETRIES

(***************************************************************************)
(* SpecOrchestrator: one run of concurrent_backfill.                       *)
(***************************************************************************)
TickerNames == {"AAPL", "MSFT"}

InitOrchestrator ==
  /\ InitThreads
  /\ InitNoQuote
  /\ InitNoUniverse
  /\ client = [t \in Threads |-> NoClient]
  /\ InitNoBackfill
  /\ cb_pc = "start"
  /\ cb_tickers \in {l \in UNION {[1..n -> TickerNames] : n \in 0..NTasks} :
                        Len(l) > 0 => l[1] = "AAPL"}
  /\ threads \in 0..NThreads
  /\ dry_run \in BOOLEAN
  /\ on_conflict \in {"fail", "ignore"}
  /\ fut_idx = 0
  /\ cb_result = "unset"
  /\ wpc = [w \in Tasks |-> "idle"]
  /\ df = [w \in Tasks |-> NoFrame]
  /\ cells = [w \in Tasks |-> <<>>]
  /\ conn = [w \in Tasks |-> NoConn]
  /\ insert_data = [w \in Tasks |-> <<>>]
  /\ future = [w \in Tasks |-> "unset"]
  /\ leased = {}
  /\ closes = 0
  /\ store \in {<<>>, << <<"AAPL", 1>> >>}
  /\ pending = [w \in Tasks |-> <<>>]
  /\ executes = [w \in Tasks |-> <<>>]
  /\ commits = [w \in Tasks |-> 0]
  /\ borrows = [w \in Tasks |-> 0]
  /\ releases = [w \in Tasks |-> 0]
  /\ worker_error = [w \in Tasks |-> "none"]
  /\ finished_at_close = {}

NextOrchestrator ==
  \/ CBConnect
  \/ CBSubmit
  \/ CBNoExecutor
  \/ CBResult
  \/ CBInterrupt
  \/ CBCollected
  \/ CBShutdown
  \/ CBClose
  \/ \E w \in Tasks : WStart(w)
  \/ \E w \in Tasks : WFetch(w)
  \/ \E w \in Tasks : WBorrow(w)
  \/ \E w \in Tasks : WPrepare(w)
  \/ \E w \in Tasks : WNoInsert(w)
  \/ \E w \in Tasks : WInsert(w)
  \/ \E w \in Tasks : WCommit(w)
  \/ \E w \in Tasks : WFinally(w)

SpecOrchestrator == InitOrchestrator /\ [][NextOrchestrator]_vars

\* Where the main thread and the workers are; every step of the run moves
\* one of them.
orchPcs == <<cb_pc, fut_idx, wpc>>

\* The runs on a table that holds a row already, so that inserts can
\* collide.
InitOrchestratorStocked == InitOrchestrator /\ store # <<>>

\* The threads of the run keep running and every call they make returns:
\* while a step of the run is possible, one is taken.
SpecOrchestratorFair ==
  InitOrchestratorStocked /\ [][NextOrchestrator]_vars /\ WF_orchPcs(NextOrchestrator)

(***************************************************************************)
(* SpecUniverse: one universe fetch, and the machine stopping at any step. *)
(***************************************************************************)
\* The side files a fetch can find at the target path.
PreviousFiles ==
  {NoFile, FileOf(Encode(<<"AAA">>)), FileOf(Encode(<<"BBB", "AAA">>))}

InitUniverse ==
  /\ InitThreads
  /\ InitNoQuote
  /\ client = [t \in Threads |-> NoClient]
  /\ InitNoBackfill
  /\ InitNoOrchestrator
  /\ un_pc = "start"
  /\ universe \in Universes
  /\ payload \in UNION {[1..n -> Items] : n \in 0..MaxSymbols}
  /\ to_write = <<>>
  /\ target \in PreviousFiles
  /\ previous = target
  /\ temp = NoFile
  /\ handle = "none"
  /\ buffer = <<>>
  /\ dump_idx = 0
  /\ temp_path = "None"
  /\ synced = {"target"}
  /\ un_result = "unset"

NextUniverse ==
  \/ GetIndexTickers
  \/ GetCryptoTickers
  \/ WJMkdir
  \/ WJTemp
  \/ DumpPiece
  \/ Spill
  \/ DumpDone
  \/ WriteFails
  \/ WJFlush
  \/ WJFsync
  \/ WJClose
  \/ WJReplace
  \/ WJExcept
  \/ SCMakedirs
  \/ SCOpen
  \/ SCClose
  \/ Crash

SpecUniverse == InitUniverse /\ [][NextUniverse]_vars

(***************************************************************************)
(* Properties of the batch planner and of backfill_data.                   *)
(***************************************************************************)
RECURSIVE Flatten(_)
\* The chunks of g, concatenated in order.
Flatten(g) == IF g = <<>> THEN <<>> ELSE Head(g) \o Flatten(Tail(g))

\* The Monday-to-Friday days of [s, e].
BusinessDaySet(s, e) == {d \in s..e : Weekday(d) \notin {5, 6}}

StrictlyAscending(q) == \A i \in 1..(Len(q) - 1) : q[i] < q[i + 1]

\* The chunks g of size n are exactly the business days of [s, e]: in
\* ascending order through all the chunks (so no day twice), none missing, none
\* added, no chunk longer than n.
ChunksExact(g, n, s, e) ==
  /\ StrictlyAscending(Flatten(g))
  /\ {Flatten(g)[i] : i \in 1..Len(Flatten(g))} = BusinessDaySet(s, e)
  /\ \A k \in 1..Len(g) : Len(g[k]) <= n

\* backfill_data has planned its batches (or found none to plan).
Planned == bf_pc \in {"tickers", "groups", "while", "intraday", "daily", "keep", "except"} \/ (bf_pc = "done" /\ bf_result # "ValueError")

Spans(g) == [k \in 1..Len(g) |-> <<Strftime(g[k][1]), Strftime(g[k][Len(g[k])])>>]

\* C9: for start_date 2024-01-02 (day 1, a Tuesday), end_date 2024-01-08
\* (day 7) and BATCH_DAYS = 3 the planner yields exactly the chunks
\* [Jan 2, Jan 3, Jan 4] and [Jan 5, Jan 8], fetched as the spans
\* 2024-01-02..2024-01-04 and 2024-01-05..2024-01-08; and in every plan all
\* chunks but the last hold exactly BATCH_DAYS days and none is empty.
C9_ExampleChunks ==
  /\ (Planned /\ bf_pc # "done" /\ start_date = 1 /\ end_date = 7) =>
       /\ Weekday(start_date) = 1
       /\ BATCH_DAYS = 3
       /\ grouped_dates = <<<<1, 2, 3>>, <<4, 7>>>>
       /\ Spans(grouped_dates) = << <<"2024-01-02", "2024-01-04">>,
                                    <<"2024-01-05", "2024-01-08">> >>
       /\ bf_pc = "while" =>
            <<from_date_str, to_date_str>> =
              IF group_idx = 1 THEN <<"2024-01-02", "2024-01-04">>
                               ELSE <<"2024-01-05", "2024-01-08">>
  /\ Planned =>
       \A k \in 1..Len(grouped_dates) :
         /\ Len(grouped_dates[k]) >= 1
         /\ k < Len(grouped_dates) => Len(grouped_dates[k]) = BATCH_DAYS

\* C9 witness: the second chunk of the example is being fetched.
C9_Witness ==
  /\ bf_pc = "while"
  /\ start_date = 1 /\ end_date = 7
  /\ group_idx = 2
  /\ from_date_str = "2024-01-05" /\ to_date_str = "2024-01-08"

BatchOrder ==
  [i \in 1..(Len(tickers) * Len(grouped_dates)) |->
     <<((i - 1) \div Len(grouped_dates)) + 1, ((i - 1) % Len(grouped_dates)) + 1>>]

\* The batches left so far, as <<ticker index, batch index>>.
BatchesLeft == [i \in 1..Len(batch_log) |-> <<batch_log[i][1], batch_log[i][2]>>]

\* The frames of batch <<ti, gi>> in a sequence of frames.
FramesOf(frames, ti, gi) ==
  {i \in 1..Len(frames) : frames[i] = <<tickers[ti], gi>>}

\* The fetch loop has ended and backfill_data has returned.
LoopReturned == bf_pc = "done" /\ bf_result # "ValueError" /\ all_dates # <<>>

\* C11 (as claimed): a batch is tried at most 2 times; a batch that exhausts
\* its tries without success does not end the call, which goes on to every
\* remaining batch of the ticker and every remaining ticker, so that when
\* backfill_data returns every batch has been processed; and a batch that
\* failed has contributed no rows, neither to all_dfs nor to the file.
C11_FailedBatchSkipped ==
  /\ bf_attempt <= MaxTries
  /\ BatchesLeft = SubSeq(BatchOrder, 1, Len(batch_log))
  /\ LoopReturned => BatchesLeft = BatchOrder
  /\ \A i \in 1..Len(batch_log) :
       ~batch_log[i][3] =>
         /\ FramesOf(all_dfs, batch_log[i][1], batch_log[i][2]) = {}
         /\ FramesOf(csv, batch_log[i][1], batch_log[i][2]) = {}

\* The fetch calls of a try when the first one returned r: get_intraday_data
\* alone, or followed by get_historical_data, both for this batch's window.
ExpectedCalls(r) ==
  IF r = "None"
    THEN << <<"intraday", tickers[ticker_idx], from_date_str, to_date_str>>,
            <<"daily", tickers[ticker_idx], from_date_str, to_date_str>> >>
    ELSE << <<"intraday", tickers[ticker_idx], from_date_str, to_date_str>> >>

\* C12: in every try of a batch get_intraday_data is called first, for the
\* batch's window; get_historical_data is called, for the same window and
\* after it, exactly when get_intraday_data returned no data (None), and
\* never when it returned bars (nor when it raised, which ends the try).
C12_DailyOnlyAsFallback ==
  /\ bf_pc = "intraday" => try_calls = <<>>
  /\ bf_pc = "daily" =>
       intraday_result = "None" /\ try_calls = SubSeq(ExpectedCalls("None"), 1, 1)
  /\ bf_pc \in {"keep", "except"} => try_calls = ExpectedCalls(intraday_result)
  /\ (bf_pc = "while" /\ bf_attempt > 0) => try_calls = ExpectedCalls(intraday_result)

\* C12 witness: the bars a try kept came from get_historical_data, called
\* after get_intraday_data returned None.
C12_Witness ==
  /\ bf_pc = "while"
  /\ success
  /\ intraday_result = "None"
  /\ Len(try_calls) = 2 /\ try_calls[2][1] = "daily"
  /\ all_dfs # <<>> /\ all_dfs[Len(all_dfs)] = <<tickers[ticker_idx], group_idx>>

RECURSIVE RowsInOrder(_)
\* The rows of the batches that were kept, batch after batch in the order of
\* bs, each batch once with its bars in the order of the provider's response.
RowsInOrder(bs) ==
  IF bs = <<>> THEN <<>>
  ELSE (IF FramesOf(all_dfs, Head(bs)[1], Head(bs)[2]) = {} THEN <<>>
        ELSE [i \in 1..Len(ProviderBars(Head(bs)[2])) |->
                <<tickers[Head(bs)[1]], ProviderBars(Head(bs)[2])[i]>>])
       \o RowsInOrder(Tail(bs))

\* C13 (as claimed): the batches of a ticker are fetched in ascending date
\* order, and the rows accumulated in all_dfs are the bars of the kept
\* batches in that batch order, each batch's bars once and in the order of the
\* provider's response.
C13_RowsInBatchOrder ==
  /\ BatchesLeft = SubSeq(BatchOrder, 1, Len(batch_log))
  /\ \A k \in 1..(Len(grouped_dates) - 1) :
       grouped_dates[k][Len(grouped_dates[k])] < grouped_dates[k + 1][1]
  /\ ConcatFrames(all_dfs) = RowsInOrder(BatchOrder)

\* C36: a try whose intraday and daily fetches both returned no data keeps
\* nothing and sets success, which ends the tries of the batch; a try comes
\* back to the loop test either successful or from the except clause, which
\* only an exception reaches, so a second try follows a try that raised and
\* no other.
C36_NoDataIsSuccess ==
  /\ [][(bf_pc = "keep" /\ data_chunk = "None" /\ bf_pc' # bf_pc) =>
          /\ success' /\ bf_pc' = "while"
          /\ bf_attempt' = bf_attempt
          /\ all_dfs' = all_dfs /\ csv' = csv]_vars
  /\ [][(bf_pc = "while" /\ success /\ bf_pc' # bf_pc) =>
          (bf_pc' = "groups" /\ bf_attempt' = bf_attempt)]_vars
  /\ [][(bf_pc \in {"intraday", "daily", "keep", "except"} /\ bf_pc' = "while") =>
          (success' \/ bf_pc = "except")]_vars
  /\ [][(bf_pc # "except" /\ bf_pc' = "except") =>
          (faults' = faults + 1 /\ ~success')]_vars
  /\ [][bf_attempt' > 1 => (bf_attempt' = bf_attempt \/ (bf_pc = "while" /\ ~success))]_vars

\* C36 witness: the first try of a batch asked for intraday and for daily
\* bars, got none from either, and the batch is logged as successful after
\* that one try.
C36_Witness ==
  /\ bf_pc = "groups"
  /\ bf_attempt = 1
  /\ success
  /\ intraday_result = "None"
  /\ data_chunk = "None"
  /\ Len(try_calls) = 2
  /\ batch_log # <<>>
  /\ batch_log[Len(batch_log)] = <<ticker_idx, group_idx, TRUE>>

(***************************************************************************)
(* Properties of concurrent_backfill.                                      *)
(***************************************************************************)
\* The tasks that were submitted to the executor.
WasSubmitted(w) == wpc[w] # "idle"

\* C14: in every run of concurrent_backfill close_all_connections is called
\* exactly once, and when it is called every submitted task has ended, with
\* or without an error of its worker; the run does not return before.
C14_PoolClosedOnceAfterAll ==
  /\ closes <= 1
  /\ cb_pc = "returned" <=> closes = 1
  /\ closes = 1 => \A w \in Tasks : WasSubmitted(w) => w \in finished_at_close
  /\ cb_pc \in {"finally", "returned"} => \A w \in Tasks : WasSubmitted(w) => wpc[w] = "finished"

\* C14 witness: a run of NTasks tasks, one of which failed, has returned with
\* the pool closed once.
C14_Witness ==
  /\ cb_pc = "returned"
  /\ closes = 1
  /\ Len(cb_tickers) = NTasks
  /\ finished_at_close = Tasks
  /\ \E w \in Tasks : worker_error[w] # "none"

\* C15: a worker is given at most one lease and releases it exactly once
\* before its task ends, on every path (commit, insert or commit raising, row
\* preparation raising, dry run); a lease is out only while its task runs,
\* and none is out when all tasks have ended or the pool is closed.
C15_LeaseReleasedOnce ==
  /\ \A w \in Tasks :
       /\ releases[w] <= borrows[w] /\ borrows[w] <= 1
       /\ wpc[w] = "finished" => releases[w] = borrows[w]
       /\ (borrows[w] = 1 /\ releases[w] = 0) =>
            conn[w] \in leased /\ wpc[w] \in {"prepare", "insert", "commit", "finally"}
  /\ leased = {conn[w] : w \in {v \in Tasks : borrows[v] = 1 /\ releases[v] = 0}}
  /\ \A w, v \in Tasks :
       (w # v /\ borrows[w] = 1 /\ releases[w] = 0 /\ borrows[v] = 1 /\ releases[v] = 0)
         => conn[w] # conn[v]
  /\ (\A w \in Tasks : wpc[w] \in {"idle", "finished"}) => leased = {}
  /\ closes = 1 => leased = {}

\* C15 witness: a worker whose insert met a duplicate key has ended with its
\* lease released, while another worker ended a dry run or a commit with its
\* lease released too.
C15_Witness ==
  /\ \E w \in Tasks :
       wpc[w] = "finished" /\ worker_error[w] # "none" /\ borrows[w] = 1 /\ releases[w] = 1
  /\ \E v \in Tasks :
       wpc[v] = "finished" /\ worker_error[v] = "none" /\ borrows[v] = 1 /\ releases[v] = 1
  /\ leased = {}

\* What belongs to task v alone.
TaskLocals(v) ==
  <<wpc[v], df[v], conn[v], insert_data[v], pending[v], future[v], worker_error[v],
    borrows[v], releases[v]>>

\* A step in which the worker of task w meets an exception.
Fails(w) == worker_error'[w] # worker_error[w]

\* The failure of one worker leaves its siblings, the main thread, the
\* leases of the others and the committed rows as they were.
FailureIsLocal ==
  \A w \in Tasks :
    Fails(w) =>
      /\ \A v \in Tasks \ {w} : TaskLocals(v)' = TaskLocals(v)
      /\ UNCHANGED <<mainVars, leased, store>>

\* C16: an exception in one ticker's worker (fetch, row preparation, insert
\* or commit) is caught inside backfill_single_ticker: its future ends
\* without an exception, the step changes nothing of the sibling tasks, of
\* the pool or of the main thread, every submitted task has ended when the run
\* returns, and a task that met no error itself and had rows to insert has
\* them in the table.
C16_WorkerFailureContained ==
  /\ [][FailureIsLocal]_vars
  /\ [](\A w \in Tasks : future[w] # "exception")
  /\ [](cb_pc = "returned" => \A w \in Tasks : WasSubmitted(w) => wpc[w] = "finished")
  /\ [](\A v \in Tasks :
          (wpc[v] = "finished" /\ worker_error[v] = "none" /\ insert_data[v] # <<>> /\ ~dry_run)
            => Keys(insert_data[v]) \subseteq Keys(store))

\* C16 witness: the run has returned; one worker failed, and a sibling that
\* started its insert after that failure has its rows in the table.
C16_Witness ==
  /\ cb_pc = "returned" /\ cb_result = "None"
  /\ \E w, v \in Tasks :
       /\ w # v
       /\ worker_error[w] # "none" /\ future[w] = "None"
       /\ worker_error[v] = "none" /\ insert_data[v] # <<>>
       /\ Keys(insert_data[v]) \subseteq Keys(store)
       /\ Keys(insert_data[v]) \cap Keys(SubSeq(store, Len(store), Len(store))) # {}

\* No key of the table comes twice in rows.
UniqueKeys(rows) == \A i, j \in 1..Len(rows) : i # j => rows[i] # rows[j]

\* C17: the table never holds two rows with the same (ticker, timestamp),
\* whatever the interleaving of the workers.  Under "ignore" a row whose key
\* is in the table already (or earlier in the same statement) is not
\* inserted again and no duplicate-key error is raised; under "fail" a
\* statement with such a row is rejected with a duplicate-key error and none
\* of its rows is inserted.
C17_OneRowPerKey ==
  /\ [](UniqueKeys(store))
  /\ [](\A w \in Tasks : UniqueKeys(store \o pending[w]))
  /\ [](on_conflict = "ignore" => \A w \in Tasks : worker_error[w] # "conflict")
  /\ [][\A w \in Tasks :
          (wpc[w] = "insert" /\ wpc'[w] # "insert" /\ ~dry_run /\ insert_data[w] # <<>>
             /\ Collides(insert_data[w], store))
            => IF on_conflict = "fail"
                 THEN pending'[w] = <<>> /\ worker_error'[w] \in {"conflict", "other"}
                 ELSE \/ worker_error'[w] = "other" /\ pending'[w] = <<>>
                      \/ /\ worker_error'[w] = "none"
                         /\ Keys(pending'[w]) = Keys(insert_data[w]) \ Keys(store)]_vars

\* C17 witness: under "ignore" a task whose frame repeats a key of the table
\* has ended without error and the table holds that key once.
C17_Witness ==
  /\ on_conflict = "ignore"
  /\ \E w \in Tasks :
       /\ wpc[w] = "finished" /\ worker_error[w] = "none"
       /\ Len(insert_data[w]) = 2
       /\ Keys(insert_data[w]) \subseteq Keys(store)
       /\ Len(store) = Cardinality(Keys(store))
       /\ Len(store) < Len(insert_data[w]) + 1

\* C18 (as claimed): under "fail" a duplicate-key error of a ticker's bulk
\* insert reaches the caller of concurrent_backfill, which ends by raising;
\* under "ignore" no duplicate-key error occurs.
C18_ConflictSurfaced ==
  /\ (cb_pc = "returned" /\ on_conflict = "fail"
        /\ \E w \in Tasks : worker_error[w] = "conflict") => cb_result = "raised"
  /\ on_conflict = "ignore" => \A w \in Tasks : worker_error[w] # "conflict"

\* C19 (as claimed): a run of concurrent_backfill that completes returns its
\* aggregate counts (inserted, skipped, tickers) to the caller, also when
\* tickers failed.
C19_RunReportsStats ==
  (cb_pc = "returned" /\ cb_result # "raised") => cb_result = "stats"

\* The tasks that hold lease c.
Holders(c) == {w \in Running : conn[w] = c}

\* C21: a run has one pool, created once before any task is submitted; every
\* lease that is out is held by exactly one running task and a task holds
\* at most one, so the leases out never exceed threads, nor the number of
\* tickers.
C21_LeasesWithinWorkerCount ==
  /\ [][cb_pc # "start" => cb_pc' # "start"]_vars
  /\ [](cb_pc = "start" => \A w \in Tasks : ~WasSubmitted(w))
  /\ [](\A c \in leased : Cardinality(Holders(c)) = 1)
  /\ [](\A w \in Tasks : borrows[w] <= 1)
  /\ [](Cardinality(leased) <= threads)
  /\ [](Cardinality(leased) <= Len(cb_tickers))

\* C21 witness: with one worker thread and two tickers, one task holds a
\* lease while the other waits in the queue of the executor.
C21_Witness ==
  /\ threads = 1
  /\ Len(cb_tickers) = 2
  /\ Cardinality(leased) = 1
  /\ \E w, v \in Tasks : conn[w] \in leased /\ wpc[w] = "insert" /\ wpc[v] = "queued"

\* C22 (as claimed): no run submits work with a worker count that is not
\* below the capacity of the connection pool.
C22_WorkersBelowPoolCapacity ==
  (\E w \in Tasks : WasSubmitted(w)) => threads < PoolSize

\* The rows of df[w] whose cells all convert, by their position in df[w].
Parseable(w) == {i \in 1..Len(cells[w]) : Parses(cells[w][i])}

\* rows is the parseable rows of df[w] and no other, in the order of df[w].
IsParseableRowsOf(rows, w) ==
  \E at \in [1..Len(rows) -> 1..Len(df[w])] :
    /\ \A k \in 1..Len(rows) : rows[k] = RowsOf(w)[at[k]]
    /\ \A j, k \in 1..Len(rows) : j < k => at[j] < at[k]
    /\ {at[k] : k \in 1..Len(rows)} = Parseable(w)

C30_OneInsertOneCommit ==
  \A w \in Tasks :
    /\ Len(executes[w]) <= 1
    /\ commits[w] <= Len(executes[w])
    /\ \A k \in 1..Len(executes[w]) : executes[w][k] = insert_data[w]
    /\ insert_data[w] = <<>> => executes[w] = <<>> /\ commits[w] = 0

\* C30 witness: an ended task that gave its two prepared rows to one bulk
\* insert and committed once, next to a task that prepared no row and
\* called neither.
C30_Witness ==
  \E w, v \in Tasks :
    /\ wpc[w] = "finished"
    /\ Len(insert_data[w]) = 2
    /\ executes[w] = <<insert_data[w]>>
    /\ commits[w] = 1
    /\ wpc[v] = "finished"
    /\ conn[v] # NoConn
    /\ df[v] # NoFrame
    /\ Len(df[v]) > 0
    /\ insert_data[v] = <<>>
    /\ executes[v] = <<>>
    /\ commits[v] = 0

\* The fetch of task w returned rows.
HasData(w) == df[w] # NoFrame /\ df[w] # <<>>

\* C31: in a dry run the table stays as it was and no task calls the bulk
\* insert or commit, while a task whose fetch returned rows still goes on to
\* ask the pool for a lease, and gives back the lease it got before it ends.
C31_DryRunLeavesStore ==
  /\ [][dry_run => store' = store /\ pending' = pending]_vars
  /\ [](dry_run => \A w \in Tasks : executes[w] = <<>> /\ commits[w] = 0)
  /\ [][\A w \in Tasks :
          (dry_run /\ wpc[w] = "fetch" /\ wpc'[w] # "fetch" /\ HasData(w)')
            => wpc'[w] = "borrow"]_vars
  /\ [](\A w \in Tasks :
          (dry_run /\ wpc[w] = "finished" /\ conn[w] # NoConn)
            => HasData(w) /\ borrows[w] = 1 /\ releases[w] = 1)

\* C31 witness: a dry run has returned; a task prepared two rows with a
\* lease, gave the lease back, and the table has the one row it had before.
C31_Witness ==
  /\ dry_run
  /\ cb_pc = "returned"
  /\ store = << <<"AAPL", 1>> >>
  /\ \E w \in Tasks :
       /\ wpc[w] = "finished"
       /\ Len(insert_data[w]) = 2
       /\ borrows[w] = 1
       /\ releases[w] = 1
       /\ executes[w] = <<>>
       /\ commits[w] = 0

\* C32: a worker gets its lease only when backfill_data has returned rows
\* for its ticker: it holds none while it fetches (or waits in the rate
\* limiter inside the fetch), and a task whose fetch returned no row or
\* raised never borrows.
C32_LeaseAfterFetch ==
  /\ [](\A w \in Tasks :
          wpc[w] \in {"idle", "queued", "fetch"} => conn[w] = NoConn /\ borrows[w] = 0)
  /\ [](\A w \in Tasks : borrows[w] > 0 => HasData(w))
  /\ [][\A w \in Tasks :
          borrows'[w] # borrows[w] => wpc[w] = "borrow" /\ HasData(w) /\ df'[w] = df[w]]_vars
  /\ [](\A c \in leased : \A w \in Holders(c) : wpc[w] # "fetch")

\* C32 witness: one task is in its fetch without a lease while its sibling
\* holds a lease for the rows it fetched.
C32_Witness ==
  \E w, v \in Tasks :
    /\ wpc[w] = "fetch"
    /\ conn[w] = NoConn
    /\ wpc[v] = "insert"
    /\ conn[v] \in leased
    /\ HasData(v)

\* The bulk insert of task w raised: the worker caught an exception after
\* execute_values was called and before any commit.
InsertRaised(w) == worker_error[w] # "none" /\ executes[w] # <<>> /\ commits[w] = 0

\* C33: when the bulk insert of a ticker raises, the step leaves the table
\* and the open transaction without any of its rows and goes to the end of
\* the function: the task never commits, the table changes only by the
\* commit of a task, and the lease is released before the task ends.
C33_InsertFailureCommitsNothing ==
  /\ [][\A w \in Tasks :
          (wpc[w] = "insert" /\ Fails(w))
            => /\ wpc'[w] = "finally"
               /\ pending'[w] = <<>>
               /\ store' = store]_vars
  /\ [](\A w \in Tasks :
          InsertRaised(w)
            => /\ wpc[w] \in {"finally", "finished"}
               /\ pending[w] = <<>>
               /\ wpc[w] = "finished" => releases[w] = 1 /\ borrows[w] = 1)
  /\ [][\A w \in Tasks : InsertRaised(w) => InsertRaised(w)' /\ commits'[w] = 0]_vars
  /\ [][store' # store =>
          \E w \in Tasks :
            /\ wpc[w] = "commit"
            /\ ~InsertRaised(w)
            /\ commits'[w] = commits[w] + 1
            /\ store' = store \o pending[w]]_vars

\* C33 witness: under the "fail" policy a task gave execute_values a row
\* that is in the table and a new one; it has ended with its lease released
\* and without a commit, and the new row is not in the table.
C33_Witness ==
  /\ on_conflict = "fail"
  /\ \E w \in Tasks :
       /\ wpc[w] = "finished"
       /\ worker_error[w] = "conflict"
       /\ insert_data[w] = << <<"AAPL", 1>>, <<"AAPL", 2>> >>
       /\ executes[w] = <<insert_data[w]>>
       /\ commits[w] = 0
       /\ releases[w] = 1
       /\ <<"AAPL", 2>> \notin Keys(store)

\* The pool handed task w no connection: it has rows, no lease and no
\* error, and is at the end of the function.
NoConnection(w) ==
  /\ wpc[w] \in {"finally", "finished"}
  /\ HasData(w)
  /\ conn[w] = NoConn
  /\ worker_error[w] = "none"

\* C34: a worker the pool hands no connection prepares and inserts nothing,
\* commits nothing and releases nothing; its task ends without an exception;
\* the step changes neither the table nor anything of its siblings, of the
\* pool or of the main thread.
C34_NoConnectionNoWrites ==
  /\ [](\A w \in Tasks :
          NoConnection(w)
            => /\ borrows[w] = 0 /\ releases[w] = 0
               /\ insert_data[w] = <<>> /\ pending[w] = <<>>
               /\ executes[w] = <<>> /\ commits[w] = 0
               /\ wpc[w] = "finished" => future[w] = "None")
  /\ [][\A w \in Tasks :
          (wpc[w] = "borrow" /\ wpc'[w] = "finally")
            => /\ NoConnection(w)'
               /\ \A v \in Tasks \ {w} : TaskLocals(v)' = TaskLocals(v)
               /\ UNCHANGED <<mainVars, leased, store>>]_vars
  /\ [][\A w \in Tasks : NoConnection(w) => NoConnection(w)']_vars

\* C34 witness: a task with two rows has ended without a connection, and
\* its sibling, which borrowed after that, has its row in the table.
C34_Witness ==
  \E w, v \in Tasks :
    /\ wpc[w] = "finished"
    /\ NoConnection(w)
    /\ Len(df[w]) = 2
    /\ future[w] = "None"
    /\ wpc[v] = "finished"
    /\ commits[v] = 1
    /\ worker_error[v] = "none"
    /\ insert_data[v] # <<>>
    /\ Keys(insert_data[v]) \subseteq Keys(store)

\* The fetch inside a task ends: backfill_data returns or raises (under
\* SpecBackfillFair), and so does each _make_request it makes (under
\* SpecRequestFair).
BackfillDataReturns == <>(bf_pc = "done")
MakeRequestReturns == \A t \in Requesters : result[t] = "pending" ~> pc[t] = "mr_done"

PriceResolvable(data) ==
  /\ data.kind = "list" /\ data.items # <<>>
  /\ data.items[1].type = "dict" /\ data.items[1].has_price
  /\ data.items[1].price.json # "null"
  /\ data.items[1].price.text # "N/A"

\* C23: get_current_price never raises: when the request returned None, an
\* empty list or a payload that is no list, when the first entry has no
\* price or a null price, and when the request or the conversion raised, it
\* returns 0.0; otherwise it returns the price of the first entry as a
\* number.
C23_QuoteNeverFails ==
  gcp_pc = "returned" =>
    /\ gcp_result.kind = "value"
    /\ gcp_data.kind \in {"None", "raised", "dict"} => gcp_result.value = 0
    /\ (gcp_data.kind = "list" /\ gcp_data.items = <<>>) => gcp_result.value = 0
    /\ (gcp_data.kind = "list" /\ gcp_data.items # <<>>
          /\ (~gcp_data.items[1].has_price \/ gcp_data.items[1].price.json = "null"))
         => gcp_result.value = 0
    /\ ~PriceResolvable(gcp_data) => gcp_result.value = 0
    /\ PriceResolvable(gcp_data) =>
         gcp_result.value = (IF gcp_data.items[1].price.text = "150" THEN 150 ELSE 0)

\* C23 witness: the request raised and the call has returned 0.0.
C23_Witness ==
  gcp_pc = "returned" /\ gcp_data.kind = "raised" /\ gcp_result = Value(0)

(***************************************************************************)
(* Properties of the construction of the client.                           *)
(***************************************************************************)
\* C24: with an API key that is missing, empty or no string, the
\* construction of FMPMarketData ends at once with ValueError: no client
\* exists afterwards (no request_timestamps list, no lock), no fetch is
\* made, and the caller ends with that error without constructing again.
C24_BadKeyFailsAtConstruction ==
  /\ [](api_key \in {"", "NotAString"} =>
          /\ bf_pc \in {"start", "done"}
          /\ bf_pc = "done" => bf_result = "ValueError"
          /\ \A t \in Threads : client[t] = NoClient
          /\ fetches = 0 /\ try_calls = <<>> /\ all_dfs = <<>>)
  /\ [][bf_pc = "start" /\ api_key \in {"", "NotAString"} =>
          bf_pc' = "done" /\ bf_result' = "ValueError"]_vars
  /\ [][bf_pc = "done" => bf_pc' = "done"]_vars
  /\ [](bf_pc \notin {"start", "done"} => client[Caller] = Caller)

\* C24 witness: a call for a ticker and a range with business days has ended
\* with ValueError on an empty key, without a client.
C24_Witness ==
  /\ api_key = ""
  /\ bf_pc = "done" /\ bf_result = "ValueError"
  /\ tickers # <<>>
  /\ BusinessDaySet(start_date, end_date) # {}
  /\ client[Caller] = NoClient

(***************************************************************************)
(* Properties of the universe side files.                                  *)
(***************************************************************************)
\* The list the fetch is writing has been computed.
Writing == un_pc \notin {"idle", "start"}

\* C20 (as claimed): at every point of a universe fetch of any kind, also
\* after the process or the machine has stopped at any step, the target side
\* file is the complete file of before the fetch or the complete text of the
\* new list.
C20_TargetNeverPartial ==
  \/ target = previous
  \/ Writing /\ target = FileOf(Encode(to_write))

\* The same for the fetches that go through _write_json_atomic.
IndexTargetNeverPartial ==
  universe \in {"sp500", "commodity"} => C20_TargetNeverPartial

\* An index fetch has replaced the target by the new list.
IndexTargetReplaced ==
  /\ universe \in {"sp500", "commodity"}
  /\ un_pc = "crashed"
  /\ target # previous
  /\ target = FileOf(Encode(to_write))

====
